---- MODULE Spec2Model ----
(***************************************************************************)
(* A model of the media pre-processing pipeline: src/process_media.py,     *)
(* src/src/main.py, src/src/core/file_processor.py and src/src/utils/*.py. *)
(*                                                                         *)
(* Python str values are TLA+ strings (Len, SubSeq and \o act on them).    *)
(* None is the string NONE wrapped in a record where a value of another    *)
(* type may stand in its place.  A datetime is a record                    *)
(*   [y, mo, d, h, mi, s, tz]                                              *)
(* whose tz is "naive" (tzinfo is None), "local" (tzlocal()) or a signed   *)
(* number of minutes east of UTC (a fixed offset).                         *)
(***************************************************************************)
EXTENDS Integers, Sequences, FiniteSets, TLC

(***************************************************************************)
(* Python str operations                                                   *)
(***************************************************************************)
\* s[i:i+1], the empty string outside the string
Char(s, i) == IF i \in 1..Len(s) THEN SubSeq(s, i, i) ELSE ""

\* s[a-1:b] with both ends clamped to the string
Slice(s, a, b) ==
    LET lo == IF a < 1 THEN 1 ELSE a
        hi == IF b > Len(s) THEN Len(s) ELSE b
    IN  IF lo > hi THEN "" ELSE SubSeq(s, lo, hi)

Digits == {"0", "1", "2", "3", "4", "5", "6", "7", "8", "9"}

\* str.lower() of one character
LowerChar(c) ==
    IF \E i \in 1..26 : Char("ABCDEFGHIJKLMNOPQRSTUVWXYZ", i) = c
    THEN Char("abcdefghijklmnopqrstuvwxyz",
              CHOOSE i \in 1..26 : Char("ABCDEFGHIJKLMNOPQRSTUVWXYZ", i) = c)
    ELSE c

RECURSIVE Lower(_)
\* str.lower()
Lower(s) ==
    IF s = "" THEN ""
    ELSE IF Len(s) = 1 THEN LowerChar(s)
    ELSE LET half == Len(s) \div 2
         IN  Lower(SubSeq(s, 1, half)) \o Lower(SubSeq(s, half + 1, Len(s)))

\* sub in s
Contains(s, sub) ==
    \E i \in 1..(Len(s) - Len(sub) + 1) : SubSeq(s, i, i + Len(sub) - 1) = sub

\* s.isdigit(): non-empty and every character a digit
IsDigitStr(s) == s # "" /\ \A i \in 1..Len(s) : Char(s, i) \in Digits

\* s.find(c) for a one-character c: the first index, 0 when absent
Find(s, c) ==
    IF \E i \in 1..Len(s) : Char(s, i) = c
    THEN CHOOSE i \in 1..Len(s) : Char(s, i) = c /\ \A j \in 1..(i - 1) : Char(s, j) # c
    ELSE 0

RECURSIVE Split(_, _)
\* s.split(c) for a one-character separator c
Split(s, c) ==
    LET i == Find(s, c)
    IN  IF i = 0 THEN <<s>>
        ELSE <<SubSeq(s, 1, i - 1)>> \o Split(SubSeq(s, i + 1, Len(s)), c)

RECURSIVE ReplaceAll(_, _, _)
\* s.replace(old, new): left to right, non-overlapping
ReplaceAll(s, old, new) ==
    LET At(i) == SubSeq(s, i, i + Len(old) - 1) = old
        starts == 1..(Len(s) - Len(old) + 1)
    IN  IF old = "" \/ ~\E i \in starts : At(i) THEN s
        ELSE LET first == CHOOSE i \in starts : At(i) /\ \A j \in 1..(i - 1) : ~At(j)
             IN  SubSeq(s, 1, first - 1) \o new
                 \o ReplaceAll(SubSeq(s, first + Len(old), Len(s)), old, new)

RECURSIVE ToInt(_)
\* int(s) of a string of digits
ToInt(s) ==
    IF s = "" THEN 0 ELSE ToInt(SubSeq(s, 1, Len(s) - 1)) * 10
                         + (CHOOSE n \in 0..9 : Char("0123456789", n + 1) = Char(s, Len(s)))

RECURSIVE ToStr(_)
\* str(n) of a natural number
ToStr(n) ==
    IF n < 10 THEN Char("0123456789", n + 1)
    ELSE ToStr(n \div 10) \o Char("0123456789", (n % 10) + 1)

RECURSIVE Pad(_, _)
\* the %0wd conversion: str(n) left-padded with zeros to at least w characters
Pad(n, w) == LET t == ToStr(n) IN IF Len(t) >= w THEN t ELSE "0" \o Pad(n, w - 1)

\* None, where a str may stand (Optional[str])
NoneS == "<None>"

\* s.strip()
Strip(s) ==
    LET inked == {i \in 1..Len(s) : Char(s, i) # " "}
    IN  IF inked = {} THEN ""
        ELSE SubSeq(s, CHOOSE i \in inked : \A j \in inked : i <= j,
                       CHOOSE i \in inked : \A j \in inked : i >= j)

\* int(s) of a str: the digits between optional blanks; ValueError otherwise
IntOk(s) == IsDigitStr(Strip(s))

IntOf(s) == ToInt(Strip(s))

(***************************************************************************)
(* datetime values                                                         *)
(***************************************************************************)
\* None, where a datetime or a dict value may stand
None == [none |-> TRUE]

\* dateutil.tz.tzlocal(); the zone of the machine is LocalOffset minutes east of UTC
TzLocal == [kind |-> "local", off |-> 0]

LocalOffset == 2 * 60

\* datetime.timezone(timedelta(minutes = m)) and dateutil's tzoffset
TzFixed(m) == [kind |-> "fixed", off |-> m]

DaysInMonth(y, mo) ==
    IF mo = 2 THEN (IF (y % 4 = 0 /\ y % 100 # 0) \/ y % 400 = 0 THEN 29 ELSE 28)
    ELSE IF mo \in {4, 6, 9, 11} THEN 30 ELSE 31

\* the range check of the datetime constructor (ValueError otherwise)
ValidDateTime(y, mo, d, h, mi, s) ==
    /\ y \in 1..9999
    /\ mo \in 1..12
    /\ d \in 1..DaysInMonth(y, mo)
    /\ h \in 0..23
    /\ mi \in 0..59
    /\ s \in 0..59

DateTime(y, mo, d, h, mi, s, tz) ==
    [y |-> y, mo |-> mo, d |-> d, h |-> h, mi |-> mi, s |-> s, tz |-> tz]

\* dt.astimezone(tzlocal()) of an aware dt: the same instant on the local clock
AsLocal(dt) ==
    LET m == dt.h * 60 + dt.mi + (LocalOffset - (IF dt.tz.kind = "local" THEN LocalOffset ELSE dt.tz.off))
        day == IF m < 0
               THEN IF dt.d > 1 THEN [dt EXCEPT !.d = dt.d - 1]
                    ELSE IF dt.mo > 1
                         THEN [dt EXCEPT !.mo = dt.mo - 1,
                                         !.d = DaysInMonth(dt.y, dt.mo - 1)]
                         ELSE [dt EXCEPT !.y = dt.y - 1, !.mo = 12, !.d = 31]
               ELSE IF m >= 1440
               THEN IF dt.d < DaysInMonth(dt.y, dt.mo) THEN [dt EXCEPT !.d = dt.d + 1]
                    ELSE IF dt.mo < 12
                         THEN [dt EXCEPT !.mo = dt.mo + 1, !.d = 1]
                         ELSE [dt EXCEPT !.y = dt.y + 1, !.mo = 1, !.d = 1]
               ELSE dt
        mm == (m + 1440) % 1440
    IN  [day EXCEPT !.h = mm \div 60, !.mi = mm % 60, !.tz = TzLocal]

\* get_formatted_timestamp: (date_str, time_str), from strftime('%Y%m%d') and
\* strftime('%H%M%S') of the datetime as it stands
get_formatted_timestamp(dt) ==
    [date_str |-> Pad(dt.y, 4) \o Pad(dt.mo, 2) \o Pad(dt.d, 2),
     time_str |-> Pad(dt.h, 2) \o Pad(dt.mi, 2) \o Pad(dt.s, 2)]

(***************************************************************************)
(* dateutil.parser.parse on the texts exiftool prints:                     *)
(*   DDDDxDDxDD DD:DD:DD[.D...][+DD:DD | -DD:DD | Z]                       *)
(* With x = "-" the first field is the date.  With x = ":" the parser      *)
(* reads the first field as a clock time that the second one replaces, so  *)
(* the date of the result is the default, the day of the run.  Any other   *)
(* text is a ParserError (a ValueError).                                   *)
(***************************************************************************)
\* the offset suffix: [ok, tz]
ParseOffset(t) ==
    IF t = "" THEN [ok |-> TRUE, tz |-> [kind |-> "naive", off |-> 0]]
    ELSE IF t = "Z" THEN [ok |-> TRUE, tz |-> TzFixed(0)]
    ELSE IF /\ Len(t) = 6
            /\ Char(t, 1) \in {"+", "-"}
            /\ IsDigitStr(SubSeq(t, 2, 3) \o SubSeq(t, 5, 6))
            /\ Char(t, 4) = ":"
    THEN LET m == ToInt(SubSeq(t, 2, 3)) * 60 + ToInt(SubSeq(t, 5, 6))
         IN  [ok |-> TRUE, tz |-> TzFixed(IF Char(t, 1) = "+" THEN m ELSE 0 - m)]
    ELSE [ok |-> FALSE]

SkipDigits(t) ==
    LET others == {i \in 1..Len(t) : Char(t, i) \notin Digits}
    IN  IF others = {} THEN ""
        ELSE SubSeq(t, CHOOSE i \in others : \A j \in others : i <= j, Len(t))

DateutilParse(s, today) ==
    IF /\ Len(s) >= 19
       /\ IsDigitStr(SubSeq(s, 1, 4) \o SubSeq(s, 6, 7) \o SubSeq(s, 9, 10)
                     \o SubSeq(s, 12, 13) \o SubSeq(s, 15, 16) \o SubSeq(s, 18, 19))
       /\ Char(s, 5) \in {"-", ":"}
       /\ Char(s, 8) = Char(s, 5)
       /\ Char(s, 11) = " "
       /\ Char(s, 14) = ":"
       /\ Char(s, 17) = ":"
    THEN LET rest == SubSeq(s, 20, Len(s))
             \* without a fraction of a second ".ddd"
             o == ParseOffset(IF /\ Len(rest) >= 2 /\ Char(rest, 1) = "."
                                 /\ Char(rest, 2) \in Digits
                              THEN SkipDigits(Tail(rest)) ELSE rest)
             h == ToInt(SubSeq(s, 12, 13))
             mi == ToInt(SubSeq(s, 15, 16))
             sec == ToInt(SubSeq(s, 18, 19))
             dash == Char(s, 5) = "-"
             y == IF dash THEN ToInt(SubSeq(s, 1, 4)) ELSE today.y
             mo == IF dash THEN ToInt(SubSeq(s, 6, 7)) ELSE today.mo
             d == IF dash THEN ToInt(SubSeq(s, 9, 10)) ELSE today.d
         IN  IF o.ok /\ ValidDateTime(y, mo, d, h, mi, sec)
             THEN [ok |-> TRUE, dt |-> DateTime(y, mo, d, h, mi, sec, o.tz)]
             ELSE [ok |-> FALSE]
    ELSE [ok |-> FALSE]

(***************************************************************************)
(* Python values and dicts.  A dict keeps its insertion order: keys is the *)
(* order of iteration, val the mapping.                                    *)
(***************************************************************************)
Str(s) == [t |-> "str", s |-> s]

Num(n) == [t |-> "int", n |-> n]

NoneV == [t |-> "none"]

EmptyDict == [t |-> "dict", keys |-> <<>>, val |-> [k \in {} |-> NoneV]]

IsStr(v) == v.t = "str"

IsDict(v) == v.t = "dict"

\* bool(v)
Truthy(v) ==
    \/ v.t = "str" /\ v.s # ""
    \/ v.t = "int" /\ v.n # 0
    \/ v.t = "dict" /\ v.keys # <<>>

\* k in d
Has(d, k) == k \in DOMAIN d.val

\* d.get(k)
Get(d, k) == IF Has(d, k) THEN d.val[k] ELSE NoneV

\* d[k] = v
Put(d, k, v) ==
    [t |-> "dict",
     keys |-> IF Has(d, k) THEN d.keys ELSE Append(d.keys, k),
     val |-> [x \in (DOMAIN d.val) \cup {k} |-> IF x = k THEN v ELSE d.val[x]]]

RECURSIVE FoldLeft(_, _, _)
\* functools.reduce(Op, s, acc): each step's value is computed before the next
\* step starts
FoldLeft(Op(_, _), acc, s) ==
    IF s = <<>> THEN acc
    ELSE LET next == Op(acc, Head(s))
         IN  IF next = next THEN FoldLeft(Op, next, Tail(s)) ELSE acc

\* a dict literal, from its <<key, value>> pairs in order
Dict(pairs) == FoldLeft(LAMBDA d, p : Put(d, p[1], p[2]), EmptyDict, pairs)

\* str(v), also inside an f-string
FStr(v) == IF v.t = "str" THEN v.s ELSE IF v.t = "int" THEN ToStr(v.n) ELSE "None"

(***************************************************************************)
(* MetadataExtractor.extract_metadata: the first object of exiftool's      *)
(* -json -g1 output, flattened; the empty dict when exiftool fails or its  *)
(* output is not a non-empty JSON list.                                    *)
(***************************************************************************)
ExiftoolFailed == [t |-> "failed"]

\* one group, its prefixed keys, and its bare keys whether present or not
FlattenGroup_LastWriterWins(flattened, group_key, group_data) ==
    FoldLeft(LAMBDA acc, key :
                 Put(Put(acc, group_key \o ":" \o key, group_data.val[key]),
                     key, group_data.val[key]),
             Put(flattened, group_key, group_data),
             group_data.keys)

\* lines 70-81: one group, its prefixed keys, and the bare keys not yet present
FlattenGroup(flattened, group_key, group_data) ==
    FoldLeft(LAMBDA acc, key :
                 LET withPrefixed == Put(acc, group_key \o ":" \o key, group_data.val[key])
                 IN  IF Has(withPrefixed, key) THEN withPrefixed
                     ELSE Put(withPrefixed, key, group_data.val[key]),
             Put(flattened, group_key, group_data),
             group_data.keys)

extract_metadata(exif) ==
    IF exif = ExiftoolFailed THEN EmptyDict
    ELSE FoldLeft(LAMBDA flattened, group_key :
                      LET group_data == exif.val[group_key]
                      IN  IF group_key = "SourceFile" THEN Put(flattened, group_key, group_data)
                          ELSE IF IsDict(group_data)
                               THEN FlattenGroup(flattened, group_key, group_data)
                               ELSE Put(flattened, group_key, group_data),
                  EmptyDict,
                  exif.keys)

(***************************************************************************)
(* timestamp_utils.extract_timestamp_from_filename                         *)
(***************************************************************************)
\* the datetime built with day and month taken the other way round
GroupsToDateTime_DayFirst(g) ==
    IF ValidDateTime(g[1], g[3], g[2], g[4], g[5], g[6])
    THEN DateTime(g[1], g[3], g[2], g[4], g[5], g[6], TzLocal)
    ELSE None

\* the six groups of a match as integers, and the datetime built from them
GroupsToDateTime(g) ==
    IF ValidDateTime(g[1], g[2], g[3], g[4], g[5], g[6])
    THEN DateTime(g[1], g[2], g[3], g[4], g[5], g[6], TzLocal)
    ELSE None

\* the leftmost index in 1..Len(s) at which M holds, 0 when there is none
Leftmost(s, M(_, _)) ==
    IF \E i \in 1..Len(s) : M(s, i)
    THEN CHOOSE i \in 1..Len(s) : M(s, i) /\ \A j \in 1..(i - 1) : ~M(s, j)
    ELSE 0

\* r'DJI_(\d{4})(\d{2})(\d{2})(\d{2})(\d{2})(\d{2})_' matched at index i
DjiMatchAt(s, i) ==
    /\ i + 18 <= Len(s)
    /\ SubSeq(s, i, i + 3) = "DJI_"
    /\ IsDigitStr(SubSeq(s, i + 4, i + 17))
    /\ Char(s, i + 18) = "_"

\* r'screen-(\d{4})(\d{2})(\d{2})-(\d{2})(\d{2})(\d{2})' matched at index i
ScreenMatchAt(s, i) ==
    /\ i + 21 <= Len(s)
    /\ SubSeq(s, i, i + 6) = "screen-"
    /\ IsDigitStr(SubSeq(s, i + 7, i + 14))
    /\ Char(s, i + 15) = "-"
    /\ IsDigitStr(SubSeq(s, i + 16, i + 21))

\* an optional separator [seps]? at index p: the index after it.  No separator
\* is a digit, so a separator that is there is always taken.
Opt(s, p, seps) == IF Char(s, p) \in seps THEN p + 1 ELSE p

\* r'(\d{4})[-_]?(\d{2})[-_]?(\d{2})[-_T]?(\d{2})[-_:]?(\d{2})[-_:]?(\d{2})' at
\* index i: the start indexes of the six groups
GenericStarts(s, i) ==
    LET p2 == Opt(s, i + 4, {"-", "_"})
        p3 == Opt(s, p2 + 2, {"-", "_"})
        p4 == Opt(s, p3 + 2, {"-", "_", "T"})
        p5 == Opt(s, p4 + 2, {"-", "_", ":"})
        p6 == Opt(s, p5 + 2, {"-", "_", ":"})
    IN  <<i, p2, p3, p4, p5, p6>>

GenericMatchAt(s, i) ==
    LET p == GenericStarts(s, i)
    IN  /\ IsDigitStr(Slice(s, i, i + 3)) /\ Len(Slice(s, i, i + 3)) = 4
        /\ \A k \in 2..6 :
              IsDigitStr(Slice(s, p[k], p[k] + 1)) /\ Len(Slice(s, p[k], p[k] + 1)) = 2

\* the first of two candidates that is not None
Coalesce(a, b) == IF a # None THEN a ELSE b

\* the patterns in turn; one gives None when it does not match or when the
\* datetime constructor raises ValueError
extract_timestamp_from_filename(filename) ==
    LET Groups(p) ==
            GroupsToDateTime(<<ToInt(Slice(filename, p[1], p[1] + 3)),
                               ToInt(Slice(filename, p[2], p[2] + 1)),
                               ToInt(Slice(filename, p[3], p[3] + 1)),
                               ToInt(Slice(filename, p[4], p[4] + 1)),
                               ToInt(Slice(filename, p[5], p[5] + 1)),
                               ToInt(Slice(filename, p[6], p[6] + 1))>>)
        dji == Leftmost(filename, DjiMatchAt)
        screen == Leftmost(filename, ScreenMatchAt)
        generic == Leftmost(filename, GenericMatchAt)
    IN  Coalesce(IF dji = 0 THEN None
                 ELSE Groups(<<dji + 4, dji + 8, dji + 10, dji + 12, dji + 14, dji + 16>>),
        Coalesce(IF screen = 0 THEN None
                 ELSE Groups(<<screen + 7, screen + 11, screen + 13, screen + 16,
                               screen + 18, screen + 20>>),
                 IF generic = 0 THEN None
                 ELSE Groups(GenericStarts(filename, generic))))

(***************************************************************************)
(* timestamp_utils._flatten_metadata and extract_timestamp_from_metadata   *)
(***************************************************************************)
RECURSIVE FlattenInto(_, _, _)
\* _flatten_metadata(metadata, result, prefix): the result dict afterwards
FlattenInto(metadata, result, prefix) ==
    FoldLeft(LAMBDA acc, key :
                 LET value == metadata.val[key]
                     new_key == IF prefix # "" THEN prefix \o ":" \o key ELSE key
                 IN  IF IsDict(value)
                     THEN FoldLeft(LAMBDA a, k :
                                       IF IsDict(value.val[k]) THEN a
                                       ELSE Put(a, new_key \o ":" \o k, value.val[k]),
                                   FlattenInto(value, acc, new_key),
                                   value.keys)
                     ELSE Put(acc, new_key, value),
             result,
             metadata.keys)

_flatten_metadata(metadata) == FlattenInto(metadata, EmptyDict, "")

timestamp_fields ==
    <<"ExifIFD:DateTimeOriginal", "IFD0:ModifyDate", "System:FileModifyDate",
      "QuickTime:CreateDate", "Track1:TrackCreateDate",
      "SubSecDateTimeOriginal", "SubSecCreateDate", "SubSecModifyDate",
      "DateTimeOriginal", "CreateDate", "ModifyDate",
      "EXIF:DateTimeOriginal", "EXIF:CreateDate", "EXIF:ModifyDate",
      "Composite:SubSecDateTimeOriginal", "Composite:SubSecCreateDate",
      "Composite:SubSecModifyDate",
      "QuickTime:MediaCreateDate", "QuickTime:TrackCreateDate", "QuickTime:ModifyDate",
      "XML:CreationDate", "XML:LastUpdate",
      "FileModifyDate", "File:FileModifyDate",
      "MediaCreateDate", "TrackCreateDate",
      "CreationDateValue", "CreationTime">>

offset_fields ==
    <<"OffsetTimeOriginal", "OffsetTime", "TimeZoneOffset",
      "EXIF:OffsetTimeOriginal", "EXIF:OffsetTime">>

qt_fields == <<"CreateDate", "ModifyDate", "TrackCreateDate", "MediaCreateDate">>


\* lines 102-124: flat_metadata after the QuickTime block
QtFlat(metadata, flat) ==
    IF ~Has(metadata, "QuickTime") THEN flat
    ELSE LET quicktime_data == metadata.val["QuickTime"]
         IN  FoldLeft(LAMBDA acc, qt_field :
                          IF ~Has(quicktime_data, qt_field) THEN acc
                          ELSE LET \* lines 113-117: with the group's TimeZone appended
                                   qt_value ==
                                       IF /\ Has(quicktime_data, "TimeZone")
                                          /\ IsStr(quicktime_data.val["TimeZone"])
                                       THEN Str(FStr(quicktime_data.val[qt_field])
                                                \o quicktime_data.val["TimeZone"].s)
                                       ELSE quicktime_data.val[qt_field]
                                   a1 == Put(acc, "QuickTime:" \o qt_field, qt_value)
                               IN  IF Has(a1, qt_field) THEN a1
                                   ELSE Put(a1, qt_field, qt_value),
                      flat,
                      qt_fields)

\* lines 112-114: the parameter timezone_str after the QuickTime block, which
\* assigns it in every iteration that finds its field
QtTimezoneStr(metadata, timezone_str) ==
    IF ~Has(metadata, "QuickTime") THEN timezone_str
    ELSE LET quicktime_data == metadata.val["QuickTime"]
         IN  IF \A i \in 1..Len(qt_fields) : ~Has(quicktime_data, qt_fields[i])
             THEN timezone_str
             ELSE IF Has(quicktime_data, "TimeZone") /\ IsStr(quicktime_data.val["TimeZone"])
                  THEN quicktime_data.val["TimeZone"].s
                  ELSE NoneS

\* lines 145-159: the tzinfo of one offset text, None on ValueError
OffsetTzinfo(offset) ==
    LET hours == Slice(offset, 2, 3)
        mins == Slice(offset, 5, Len(offset))
    IN  IF ~IntOk(hours) \/ (Len(offset) > 4 /\ ~IntOk(mins)) THEN None
        ELSE LET m == ToInt(hours) * 60 + (IF Len(offset) > 4 THEN ToInt(mins) ELSE 0)
             IN  TzFixed(IF Char(offset, 1) = "+" THEN m ELSE 0 - m)

RECURSIVE OffsetScan(_, _, _)
\* lines 142-159: the first offset field that gives a tzinfo, from index i on
OffsetScan(flat, metadata, i) ==
    IF i > Len(offset_fields) THEN None
    ELSE LET offset == IF Has(flat, offset_fields[i]) THEN flat.val[offset_fields[i]]
                       ELSE Get(metadata, offset_fields[i])
         IN  IF Truthy(offset) /\ IsStr(offset) /\ OffsetTzinfo(offset.s) # None
             THEN OffsetTzinfo(offset.s)
             ELSE OffsetScan(flat, metadata, i + 1)

\* lines 137-167: the zone handling of a parsed instant
WithZone(dt, flat, metadata, tz, timezone_str) ==
    IF dt.tz.kind = "naive"
    THEN LET found == OffsetScan(flat, metadata, 1)
         IN  [dt EXCEPT !.tz = IF found # None THEN found ELSE tz]
    ELSE IF timezone_str = "local" THEN AsLocal(dt) ELSE dt

\* lines 126-171: the loop over timestamp_fields from index i on; it returns at
\* the first field whose text parses
FieldScan(flat, metadata, tz, timezone_str, today, i) ==
    LET timestamp_str(k) == IF Has(flat, timestamp_fields[k])
                            THEN flat.val[timestamp_fields[k]]
                            ELSE Get(metadata, timestamp_fields[k])
        parsed(k) == IF Truthy(timestamp_str(k)) /\ IsStr(timestamp_str(k))
                     THEN DateutilParse(timestamp_str(k).s, today) ELSE [ok |-> FALSE]
        parsing == {k \in i..Len(timestamp_fields) : parsed(k).ok}
    IN  IF parsing = {} THEN None
        ELSE WithZone(parsed(CHOOSE k \in parsing : \A j \in parsing : k <= j).dt,
                      flat, metadata, tz, timezone_str)

\* lines 173-181: the File group's FileModifyDate as the last resort
LastResort(metadata, tz, today) ==
    IF /\ Has(metadata, "File")
       /\ IsDict(metadata.val["File"])
       /\ Has(metadata.val["File"], "FileModifyDate")
       /\ IsStr(metadata.val["File"].val["FileModifyDate"])
    THEN LET parsed == DateutilParse(metadata.val["File"].val["FileModifyDate"].s, today)
         IN  IF ~parsed.ok THEN None
             ELSE IF parsed.dt.tz.kind = "naive" THEN [parsed.dt EXCEPT !.tz = tz]
             ELSE parsed.dt
    ELSE None

\* lines 18-183.  Lines 84-93: datetime.timezone has no gettz, the bare except
\* catches the AttributeError, and tz is tzlocal() for every timezone_str
extract_timestamp_from_metadata(metadata, timezone_str, today) ==
    LET tz == TzLocal
        flat == QtFlat(metadata, _flatten_metadata(metadata))
        tzs == QtTimezoneStr(metadata, timezone_str)
        scanned == FieldScan(flat, metadata, tz, tzs, today, 1)
    IN  IF scanned # None THEN scanned ELSE LastResort(metadata, tz, today)

(***************************************************************************)
(* config.py and file_utils.py: extensions                                 *)
(***************************************************************************)
\* get_file_extension of a Path: pathlib's PurePath.suffix of the file name
get_file_extension(name) ==
    LET i == IF \E k \in 1..Len(name) : Char(name, k) = "."
             THEN CHOOSE k \in 1..Len(name) :
                     Char(name, k) = "." /\ \A j \in (k + 1)..Len(name) : Char(name, j) # "."
             ELSE 0
    IN  IF i >= 2 /\ i < Len(name) THEN SubSeq(name, i, Len(name)) ELSE ""

\* SUPPORTED_EXTENSIONS, all values
SUPPORTED_EXTENSIONS == {".jpg", ".jpeg", ".dng", ".arw", ".mp4"}

\* EXTENSION_MAPPING.get(ext, ext) of the lowercased extension
get_normalized_extension(extension) ==
    LET ext == Lower(extension) IN IF ext = ".jpeg" THEN ".jpg" ELSE ext

(***************************************************************************)
(* FileProcessor._identify_device_type and _identify_media_type            *)
(***************************************************************************)
DEVICE_PATTERNS_CameraFirst ==
    <<[device |-> "sony_camera",
       filename_patterns |-> <<"DSC">>,
       metadata_patterns |-> <<<<"make", <<"SONY">>>>,
                               <<"model", <<"ILCE-7M4">>>>,
                               <<"devicemanufacturer", <<"Sony">>>>,
                               <<"devicemodelname", <<"ILCE-7M4">>>>>>],
      [device |-> "dji_drone",
       filename_patterns |-> <<"DJI_", "Mavic3Pro">>,
       metadata_patterns |-> <<<<"make", <<"Hasselblad", "DJI">>>>,
                               <<"model", <<"L2D-20c", "Mavic3Pro">>>>,
                               <<"product_name", <<"DJIMavic3Pro">>>>,
                               <<"manufacturer", <<"DJI">>>>>>],
      [device |-> "dji_rc_pro",
       filename_patterns |-> <<"screen-", "RCPro">>,
       metadata_patterns |-> <<<<"make", <<"DJI">>>>,
                               <<"model", <<"RCPro">>>>>>]>>

DEVICE_PATTERNS ==
    <<[device |-> "dji_drone",
       filename_patterns |-> <<"DJI_", "Mavic3Pro">>,
       metadata_patterns |-> <<<<"make", <<"Hasselblad", "DJI">>>>,
                               <<"model", <<"L2D-20c", "Mavic3Pro">>>>,
                               <<"product_name", <<"DJIMavic3Pro">>>>,
                               <<"manufacturer", <<"DJI">>>>>>],
      [device |-> "sony_camera",
       filename_patterns |-> <<"DSC">>,
       metadata_patterns |-> <<<<"make", <<"SONY">>>>,
                               <<"model", <<"ILCE-7M4">>>>,
                               <<"devicemanufacturer", <<"Sony">>>>,
                               <<"devicemodelname", <<"ILCE-7M4">>>>>>],
      [device |-> "dji_rc_pro",
       filename_patterns |-> <<"screen-", "RCPro">>,
       metadata_patterns |-> <<<<"make", <<"DJI">>>>,
                               <<"model", <<"RCPro">>>>>>]>>

\* lines 365-374: one metadata rule <<field, values>> against the bag
MetadataRuleMatches(metadata, rule) ==
    LET first == Get(metadata, rule[1])
        metadata_value == IF Truthy(first) THEN first ELSE Get(metadata, Lower(rule[1]))
    IN  /\ Truthy(metadata_value)
        /\ IsStr(metadata_value)
        /\ \E i \in 1..Len(rule[2]) : Contains(Lower(metadata_value.s), Lower(rule[2][i]))

\* lines 358-374: one row of DEVICE_PATTERNS
DeviceRowMatches(filename, metadata, row) ==
    \/ \E i \in 1..Len(row.filename_patterns) : Contains(filename, row.filename_patterns[i])
    \/ \E i \in 1..Len(row.metadata_patterns) :
          MetadataRuleMatches(metadata, row.metadata_patterns[i])

\* lines 376-384: the extension as the last resort
ExtensionFallback(filename) ==
    LET ext == Lower(get_file_extension(filename))
    IN  IF ext = ".arw" THEN "sony_camera"
        ELSE IF /\ ext \in {".dng", ".jpg", ".jpeg", ".mp4"}
                /\ (Contains(filename, "DJI") \/ Contains(filename, "FC43"))
             THEN "dji_drone"
        ELSE IF ext = ".mp4" /\ (Contains(filename, "Sony") \/ Contains(filename, "ILCE"))
             THEN "sony_camera"
        ELSE NoneS

_identify_device_type_WithoutShortcut(filename, metadata) ==
    IF Contains(filename, "DJI-Mavic3Pro") THEN "dji_drone"
    ELSE IF Contains(filename, "DJI-RCPro") THEN "dji_rc_pro"
    ELSE IF Contains(filename, "Sony-ILCE") THEN "sony_camera"
    ELSE IF \E i \in 1..Len(DEVICE_PATTERNS) :
               DeviceRowMatches(filename, metadata, DEVICE_PATTERNS[i])
         THEN DEVICE_PATTERNS[CHOOSE i \in 1..Len(DEVICE_PATTERNS) :
                 /\ DeviceRowMatches(filename, metadata, DEVICE_PATTERNS[i])
                 /\ \A j \in 1..(i - 1) :
                       ~DeviceRowMatches(filename, metadata, DEVICE_PATTERNS[j])].device
    ELSE ExtensionFallback(filename)

_identify_device_type(filename, metadata) ==
    \* lines 340-347: C followed by digits, as an .mp4
    IF /\ Lower(get_file_extension(filename)) = ".mp4"
       /\ Char(filename, 1) = "C"
       /\ IsDigitStr(Tail(Split(filename, ".")[1]))
    THEN "sony_camera"
    ELSE IF Contains(filename, "DJI-Mavic3Pro") THEN "dji_drone"
    ELSE IF Contains(filename, "DJI-RCPro") THEN "dji_rc_pro"
    ELSE IF Contains(filename, "Sony-ILCE") THEN "sony_camera"
    ELSE IF \E i \in 1..Len(DEVICE_PATTERNS) :
               DeviceRowMatches(filename, metadata, DEVICE_PATTERNS[i])
         THEN DEVICE_PATTERNS[CHOOSE i \in 1..Len(DEVICE_PATTERNS) :
                 /\ DeviceRowMatches(filename, metadata, DEVICE_PATTERNS[i])
                 /\ \A j \in 1..(i - 1) :
                       ~DeviceRowMatches(filename, metadata, DEVICE_PATTERNS[j])].device
    ELSE ExtensionFallback(filename)

_identify_media_type(filename) ==
    LET ext == Lower(get_file_extension(filename))
    IN  IF ext \in {".jpg", ".jpeg", ".dng", ".arw"} THEN "image"
        ELSE IF ext = ".mp4" THEN "video"
        ELSE NoneS

(***************************************************************************)
(* float values are thousandths: float("29.97") is 29970.  float(s) takes  *)
(* digits, an optional point and digits, between optional blanks; digits   *)
(* after the third decimal place are dropped.  Any other text is a         *)
(* ValueError.                                                             *)
(***************************************************************************)
FloatOk(s) ==
    LET t == Strip(s)
        i == Find(t, ".")
        whole == IF i = 0 THEN t ELSE SubSeq(t, 1, i - 1)
        frac == IF i = 0 THEN "" ELSE SubSeq(t, i + 1, Len(t))
    IN  /\ whole \o frac # ""
        /\ \A k \in 1..Len(whole) : Char(whole, k) \in Digits
        /\ \A k \in 1..Len(frac) : Char(frac, k) \in Digits

FloatOf(s) ==
    LET t == Strip(s)
        i == Find(t, ".")
        whole == IF i = 0 THEN t ELSE SubSeq(t, 1, i - 1)
        frac == IF i = 0 THEN "" ELSE SubSeq(t, i + 1, Len(t))
        frac3 == Slice(frac \o "000", 1, 3)
    IN  ToInt(whole) * 1000 + ToInt(frac3)

(***************************************************************************)
(* FileProcessor: the components of the new filename                       *)
(***************************************************************************)
RECURSIVE FirstText(_, _, _)
\* lines 520-523 and 540-543: the first field holding a non-blank str, stripped
FirstText(metadata, fields, i) ==
    IF i > Len(fields) THEN NoneS
    ELSE LET v == Get(metadata, fields[i])
         IN  IF Truthy(v) /\ IsStr(v) /\ Strip(v.s) # "" THEN Strip(v.s)
             ELSE FirstText(metadata, fields, i + 1)

_extract_make(metadata, device_type) ==
    LET make == FirstText(metadata, <<"Make", "DeviceManufacturer", "manufacturer">>, 1)
    IN  IF make # NoneS THEN make
        ELSE IF device_type \in {"dji_rc_pro", "dji_drone"} THEN "DJI"
        ELSE IF device_type = "sony_camera" THEN "Sony"
        ELSE "Unknown"

_extract_model(metadata, device_type) ==
    LET model == FirstText(metadata, <<"Model", "DeviceModelName", "modelname">>, 1)
    IN  IF model # NoneS THEN model
        ELSE IF device_type = "dji_drone" THEN "Mavic 3 Pro"
        ELSE IF device_type = "sony_camera" THEN "ILCE-7M4"
        ELSE IF device_type = "dji_rc_pro" THEN "RC Pro"
        ELSE "Unknown"

_extract_sequence_number_SecondPart(filename, device_type) ==
    IF device_type = "dji_drone" /\ Len(Split(filename, "_")) >= 3
    THEN Split(filename, "_")[2]
    ELSE NoneS

_extract_sequence_number(filename, device_type) ==
    IF device_type = "dji_drone" /\ Len(Split(filename, "_")) >= 3
    THEN Split(filename, "_")[3]
    ELSE NoneS

\* the count written as int() reads it, without the padding
ShutterField_Unpadded(metadata, field) ==
    LET v == Get(metadata, field)
    IN  IF ~Truthy(v) THEN NoneS
        ELSE IF v.t = "int" THEN ToStr(v.n)
        ELSE IF IsStr(v) /\ IntOk(v.s) THEN ToStr(IntOf(v.s))
        ELSE NoneS

\* lines 571-575 and 579-583: one shutter count field, None when it is absent
\* or int() raises
ShutterField(metadata, field) ==
    LET v == Get(metadata, field)
    IN  IF ~Truthy(v) THEN NoneS
        ELSE IF v.t = "int" THEN Pad(v.n, 6)
        ELSE IF IsStr(v) /\ IntOk(v.s) THEN Pad(IntOf(v.s), 6)
        ELSE NoneS

_extract_shutter_count(metadata, device_type) ==
    IF device_type # "sony_camera" THEN NoneS
    ELSE IF ShutterField(metadata, "ShutterCount") # NoneS
         THEN ShutterField(metadata, "ShutterCount")
    ELSE ShutterField(metadata, "ShutterCount2")

\* the label of a height in lines
ResolutionLabel(height) ==
    IF height = 2160 THEN "4K"
    ELSE IF height = 1080 THEN "FHD"
    ELSE IF height = 720 THEN "HD"
    ELSE ToStr(height) \o "p"

\* int(v) of a metadata value: [ok, n]
IntValue(v) ==
    IF v.t = "int" THEN [ok |-> TRUE, n |-> v.n]
    ELSE IF IsStr(v) /\ IntOk(v.s) THEN [ok |-> TRUE, n |-> IntOf(v.s)]
    ELSE [ok |-> FALSE, n |-> 0]

\* lines 590-609: the Sony .mp4 fields first
SonyResolution(filename, metadata, device_type) ==
    LET width == Get(metadata, "VideoFormatVideoLayoutPixel")
        height == Get(metadata, "VideoFormatVideoLayoutNumOfVerticalLine")
    IN  IF /\ device_type = "sony_camera"
           /\ Lower(get_file_extension(filename)) = ".mp4"
           /\ Truthy(width) /\ Truthy(height)
           /\ IntValue(width).ok /\ IntValue(height).ok
        THEN ResolutionLabel(IntValue(height).n)
        ELSE NoneS

resolution_fields ==
    <<<<"ImageWidth", "ImageHeight">>,
      <<"VideoFormatVideoLayoutPixel", "VideoFormatVideoLayoutNumOfVerticalLine">>,
      <<"Width", "Height">>,
      <<"SourceImageWidth", "SourceImageHeight">>,
      <<"XML:VideoFormatVideoLayoutPixel", "XML:VideoFormatVideoLayoutNumOfVerticalLine">>,
      <<"Composite:ImageWidth", "Composite:ImageHeight">>>>

\* the text before the x taken for the height
HeightText_WidthPart(height) ==
    IF Contains(height.s, "x") THEN Split(height.s, "x")[1] ELSE height.s

\* lines 639-643: a str height is the int after the first x, or the whole str
HeightText(height) ==
    IF Contains(height.s, "x") THEN Split(height.s, "x")[2] ELSE height.s

RECURSIVE PairScan(_, _)
\* lines 626-655: the first pair of fields with both values present and numeric;
\* a str width is the int before the first x
PairScan(metadata, i) ==
    IF i > Len(resolution_fields) THEN NoneS
    ELSE LET width == Get(metadata, resolution_fields[i][1])
             height == Get(metadata, resolution_fields[i][2])
         IN  IF /\ Truthy(width) /\ Truthy(height)
                /\ (~IsStr(width) \/ IntOk(Split(width.s, "x")[1]))
                /\ (~IsStr(height) \/ IntOk(HeightText(height)))
             THEN ResolutionLabel(IF IsStr(height) THEN IntOf(HeightText(height))
                                  ELSE height.n)
             ELSE PairScan(metadata, i + 1)

\* lines 657-674: ImageSize as "WxH" or "W H"
ImageSizeResolution(metadata) ==
    LET image_size == Get(metadata, "ImageSize")
        separator == IF Contains(image_size.s, "x") THEN "x" ELSE " "
        parts == Split(Lower(image_size.s), separator)
    IN  IF /\ Truthy(image_size) /\ IsStr(image_size)
           /\ Contains(image_size.s, separator)
           /\ Len(parts) = 2 /\ IntOk(parts[1]) /\ IntOk(parts[2])
        THEN ResolutionLabel(IntOf(parts[2]))
        ELSE NoneS

_extract_resolution(filename, metadata, device_type) ==
    IF SonyResolution(filename, metadata, device_type) # NoneS
    THEN SonyResolution(filename, metadata, device_type)
    ELSE IF PairScan(metadata, 1) # NoneS THEN PairScan(metadata, 1)
    ELSE ImageSizeResolution(metadata)

\* lines 691-702 and 738-749: the label of a frame rate in thousandths
FpsLabel(fps) ==
    LET Near(r) == fps - r * 1000 < 500 /\ r * 1000 - fps < 500
        hundredths == (fps + 5) \div 10
    IN  IF Near(24) THEN "24p"
        ELSE IF Near(25) THEN "25p"
        ELSE IF Near(30) THEN "30p"
        ELSE IF Near(50) THEN "50p"
        ELSE IF Near(60) THEN "60p"
        ELSE IF fps % 1000 = 0 THEN ToStr(fps \div 1000) \o "p"
        ELSE ToStr(hundredths \div 100) \o "." \o Pad(hundredths % 100, 2) \o "p"

RECURSIVE SonyFpsScan(_, _)
\* lines 683-704: a Sony field counts only when its text holds a p
SonyFpsScan(metadata, fields) ==
    IF fields = <<>> THEN NoneS
    ELSE LET value == Get(metadata, Head(fields))
             text == Split(FStr(value), "p")[1]
         IN  IF Truthy(value) /\ Contains(FStr(value), "p") /\ FloatOk(text)
             THEN FpsLabel(FloatOf(text))
             ELSE SonyFpsScan(metadata, Tail(fields))

fps_fields ==
    <<"VideoFrameRate", "VideoFrameRateManual", "VideoFormatVideoFrameCaptureFps",
      "VideoFormatVideoFrameFormatFps", "FrameRate",
      "XML:VideoFormatVideoFrameCaptureFps", "XML:VideoFormatVideoFrameFormatFps",
      "XML:LtcChangeTableTcFps", "AvgFrameRate">>

RECURSIVE FpsScan(_, _)
\* lines 720-753
FpsScan(metadata, fields) ==
    IF fields = <<>> THEN NoneS
    ELSE LET value == Get(metadata, Head(fields))
             value_str == FStr(value)
             text == IF Contains(value_str, "p") THEN Split(value_str, "p")[1] ELSE value_str
         IN  IF Truthy(value) /\ FloatOk(text) THEN FpsLabel(FloatOf(text))
             ELSE FpsScan(metadata, Tail(fields))

_extract_fps(filename, metadata, device_type) ==
    LET sony == IF device_type = "sony_camera" /\ Lower(get_file_extension(filename)) = ".mp4"
                THEN SonyFpsScan(metadata,
                                 <<"VideoFormatVideoFrameCaptureFps",
                                   "VideoFormatVideoFrameFormatFps",
                                   "XML:VideoFormatVideoFrameCaptureFps">>)
                ELSE NoneS
    IN  IF sony # NoneS THEN sony ELSE FpsScan(metadata, fps_fields)

duration_fields ==
    <<"Duration", "MediaDuration", "TrackDuration", "QuickTime:Duration", "XML:Duration",
      "MediaCreateDate", "MediaModifyDate", "TrackCreateDate", "TrackModifyDate">>

RECURSIVE DigitsAndPoints(_)
\* ''.join(c for c in value_str if c.isdigit() or c == '.')
DigitsAndPoints(s) ==
    IF s = "" THEN ""
    ELSE IF Len(s) = 1 THEN (IF s \in Digits \/ s = "." THEN s ELSE "")
    ELSE LET half == Len(s) \div 2
         IN  DigitsAndPoints(SubSeq(s, 1, half)) \o DigitsAndPoints(SubSeq(s, half + 1, Len(s)))

DurationOf_WithoutHours(value_str) ==
    LET parts == Split(value_str, ":")
        numeric_part == DigitsAndPoints(value_str)
    IN  IF Contains(value_str, ":")
        THEN IF Len(parts) = 3 /\ \A k \in 1..3 : FloatOk(parts[k])
             THEN FloatOf(parts[2]) * 60 + FloatOf(parts[3])
             ELSE IF Len(parts) = 2 /\ \A k \in 1..2 : FloatOk(parts[k])
             THEN FloatOf(parts[1]) * 60 + FloatOf(parts[2])
             ELSE -1
        ELSE IF /\ (Contains(value_str, "s") \/ IsDigitStr(ReplaceAll(value_str, ".", "")))
                /\ FloatOk(numeric_part)
             THEN FloatOf(numeric_part)
             ELSE -1

\* lines 786-805: the seconds (in thousandths) one value gives, -1 when none
DurationOf(value_str) ==
    LET parts == Split(value_str, ":")
        numeric_part == DigitsAndPoints(value_str)
    IN  IF Contains(value_str, ":")
        THEN IF Len(parts) = 3 /\ \A k \in 1..3 : FloatOk(parts[k])
             THEN FloatOf(parts[1]) * 3600 + FloatOf(parts[2]) * 60 + FloatOf(parts[3])
             ELSE IF Len(parts) = 2 /\ \A k \in 1..2 : FloatOk(parts[k])
             THEN FloatOf(parts[1]) * 60 + FloatOf(parts[2])
             ELSE -1
        ELSE IF /\ (Contains(value_str, "s") \/ IsDigitStr(ReplaceAll(value_str, ".", "")))
                /\ FloatOk(numeric_part)
             THEN FloatOf(numeric_part)
             ELSE -1

RECURSIVE DurationScan(_, _)
\* lines 779-810: the first field that gives a duration
DurationScan(metadata, fields) ==
    IF fields = <<>> THEN -1
    ELSE LET value == Get(metadata, Head(fields))
         IN  IF Truthy(value) /\ DurationOf(FStr(value)) # -1
             THEN DurationOf(FStr(value))
             ELSE DurationScan(metadata, Tail(fields))

_extract_video_duration(metadata, media_type) ==
    IF media_type # "video" THEN NoneS
    ELSE LET duration_seconds == DurationScan(metadata, duration_fields)
             minutes == duration_seconds \div 60000
             seconds == (duration_seconds % 60000) \div 1000
         IN  IF duration_seconds = -1 THEN NoneS
             ELSE IF minutes > 0 THEN Pad(minutes, 2) \o "m" \o Pad(seconds, 2) \o "s"
             ELSE Pad(seconds, 2) \o "s"

_extract_focal_length(filename, metadata, device_type, media_type) ==
    LET name == Lower(filename)
        camera_model == Lower(IF Has(metadata, "Model") THEN FStr(metadata.val["Model"]) ELSE "")
        lens_id == Lower(IF Has(metadata, "LensID") THEN FStr(metadata.val["LensID"]) ELSE "")
        Coded(code) ==
            Contains(name, code) \/ Contains(camera_model, code) \/ Contains(lens_id, code)
    IN  IF media_type # "image" \/ device_type # "dji_drone" THEN NoneS
        ELSE IF Coded("l2d-20c") THEN "24mm"
        ELSE IF Coded("fc4382") THEN "70mm"
        ELSE IF Coded("fc4370") THEN "166mm"
        ELSE NoneS

(***************************************************************************)
(* FileProcessor._generate_new_filename                                    *)
(***************************************************************************)
\* FILENAME_PATTERNS.get((device_type, media_type), FILENAME_PATTERNS.get('default'))
FILENAME_PATTERNS(device_type, media_type) ==
    IF device_type = "dji_drone" /\ media_type = "image"
    THEN "{date}-{time}-{sequence}-DJI-{model}-{focal_length}{ext}"
    ELSE IF device_type = "dji_drone" /\ media_type = "video"
    THEN "{date}-{time}-{resolution}-{fps}-{duration}-DJI-{model}{ext}"
    ELSE IF device_type = "sony_camera" /\ media_type = "image"
    THEN "{date}-{time}-{shutter_count}-{make}-{model}{ext}"
    ELSE IF device_type \in {"sony_camera", "dji_rc_pro"} /\ media_type = "video"
    THEN "{date}-{time}-{resolution}-{fps}-{duration}-{make}-{model}{ext}"
    ELSE "{date}-{time}-{make}-{model}{ext}"

\* lines 425-438: the display form of the model
CleanModel(model) ==
    IF Contains(model, "RC Pro") THEN "RCPro"
    ELSE IF Contains(model, "Mavic 3 Pro") THEN "Mavic3Pro"
    ELSE IF Contains(model, "ILCE-")
         THEN ReplaceAll(ReplaceAll(model, "ILCE-", "ILCE"), " ", "-")
    ELSE ReplaceAll(model, " ", "-")

\* components[key] = value when value is truthy
PutIf(components, key, value) ==
    IF value # NoneS /\ value # "" THEN Put(components, key, Str(value)) ELSE components

\* lines 441-484: the components dict
Components(filename, metadata, device_type, media_type, date_str, time_str) ==
    LET make == ReplaceAll(_extract_make(metadata, device_type), " ", "-")
        model == CleanModel(_extract_model(metadata, device_type))
        base == Dict(<<<<"datetime", Str(date_str \o "-" \o time_str)>>,
                       <<"date", Str(date_str)>>,
                       <<"time", Str(time_str)>>,
                       <<"make", Str(make)>>,
                       <<"model", Str(model)>>,
                       <<"ext", Str(get_normalized_extension(get_file_extension(filename)))>>>>)
        drone == IF device_type # "dji_drone" THEN base
                 ELSE PutIf(Put(PutIf(base, "sequence",
                                      _extract_sequence_number(filename, device_type)),
                                "model", Str("Mavic3Pro")),
                            "focal_length",
                            _extract_focal_length(filename, metadata, device_type, media_type))
    IN  IF media_type = "video"
        THEN PutIf(PutIf(PutIf(drone, "resolution",
                               _extract_resolution(filename, metadata, device_type)),
                         "fps", _extract_fps(filename, metadata, device_type)),
                   "duration", _extract_video_duration(metadata, media_type))
        ELSE IF media_type = "image" /\ device_type = "sony_camera"
        THEN PutIf(drone, "shutter_count", _extract_shutter_count(metadata, device_type))
        ELSE drone

\* the index of the first } after index i, 0 when there is none
NextClose(s, i) ==
    IF \E j \in (i + 1)..Len(s) : Char(s, j) = "}"
    THEN CHOOSE j \in (i + 1)..Len(s) :
            Char(s, j) = "}" /\ \A k \in (i + 1)..(j - 1) : Char(s, k) # "}"
    ELSE 0

RECURSIVE StripPlaceholders(_)
\* re.sub(r'\{[^\}]+\}', '', s)
StripPlaceholders(s) ==
    LET opens == {i \in 1..Len(s) : Char(s, i) = "{" /\ NextClose(s, i) > i + 1}
    IN  IF opens = {} THEN s
        ELSE LET first == CHOOSE i \in opens : \A j \in opens : i <= j
             IN  SubSeq(s, 1, first - 1)
                 \o StripPlaceholders(SubSeq(s, NextClose(s, first) + 1, Len(s)))

\* lines 496-500: every component, in the order of the dict
Substitute(pattern, components) ==
    FoldLeft(LAMBDA new_filename, key :
                 ReplaceAll(new_filename, "{" \o key \o "}", components.val[key].s),
             pattern,
             components.keys)

\* lines 491-508: the pattern filled in, and then cleaned of what is left over
_generate_new_filename(filename, metadata, device_type, media_type, date_str, time_str) ==
    ReplaceAll(ReplaceAll(StripPlaceholders(
        Substitute(FILENAME_PATTERNS(device_type, media_type),
                   Components(filename, metadata, device_type, media_type,
                              date_str, time_str))), "--", "-"), " ", "-")

(***************************************************************************)
(* FileProcessor.process, lines 92-276: the Sony-specific fields           *)
(***************************************************************************)
\* s.count(c) for a one-character c
Count(s, c) == Cardinality({i \in 1..Len(s) : Char(s, i) = c})

\* metadata[group][key] when both are there, NoneV otherwise
GroupGet(metadata, group, key) ==
    IF Has(metadata, group) /\ IsDict(metadata.val[group]) /\ Has(metadata.val[group], key)
    THEN metadata.val[group].val[key]
    ELSE NoneV

GroupHas(metadata, group, key) ==
    Has(metadata, group) /\ IsDict(metadata.val[group]) /\ Has(metadata.val[group], key)

\* date_str.split(' ', 1) with ':' -> '-' in the first part only
DashedDate(date_str) ==
    LET i == Find(date_str, " ")
    IN  IF i = 0 THEN date_str
        ELSE ReplaceAll(SubSeq(date_str, 1, i - 1), ":", "-")
             \o SubSeq(date_str, i, Len(date_str))

\* lines 110-116 (and 127-132, 149-154, 165-170): the .arw rewriting
RewriteArw(date_str) ==
    IF Count(date_str, ":") >= 2 THEN DashedDate(date_str) ELSE date_str

\* the datetime of a parse, None when the parser raised
Parsed(p) == IF p.ok THEN p.dt ELSE None

\* one .arw candidate: the parsed datetime, None when the field is absent or
\* anything in its try block raises
ArwField(metadata, group, key, today) ==
    IF GroupHas(metadata, group, key) /\ IsStr(GroupGet(metadata, group, key))
    THEN Parsed(DateutilParse(RewriteArw(GroupGet(metadata, group, key).s), today))
    ELSE None

\* str(tz_offset) appended when the offset field is there and truthy
WithOffset(text, tz_offset) == text \o (IF Truthy(tz_offset) THEN FStr(tz_offset) ELSE "")

\* lines 139-158: ExifIFD:DateTimeOriginal with OffsetTimeOriginal appended
ArwExifField(metadata, today) ==
    IF /\ GroupHas(metadata, "ExifIFD", "DateTimeOriginal")
       /\ IsStr(GroupGet(metadata, "ExifIFD", "DateTimeOriginal"))
    THEN Parsed(DateutilParse(
             WithOffset(RewriteArw(GroupGet(metadata, "ExifIFD", "DateTimeOriginal").s),
                        GroupGet(metadata, "ExifIFD", "OffsetTimeOriginal")),
             today))
    ELSE None

\* the four fields in turn, but a field that is there and does not parse ends
\* the search
SonyArwTimestamp_FailureEndsTheSearch(metadata, today) ==
    LET Field(i) ==
            IF i = 1 THEN ArwField(metadata, "Composite", "SubSecDateTimeOriginal", today)
            ELSE IF i = 2 THEN ArwField(metadata, "System", "FileModifyDate", today)
            ELSE IF i = 3 THEN ArwExifField(metadata, today)
            ELSE ArwField(metadata, "IFD0", "ModifyDate", today)
        There(i) ==
            IF i = 1 THEN GroupHas(metadata, "Composite", "SubSecDateTimeOriginal")
            ELSE IF i = 2 THEN GroupHas(metadata, "System", "FileModifyDate")
            ELSE IF i = 3 THEN GroupHas(metadata, "ExifIFD", "DateTimeOriginal")
            ELSE GroupHas(metadata, "IFD0", "ModifyDate")
        ends == {i \in 1..4 : There(i)}
    IN  IF ends = {} THEN None
        ELSE Field(CHOOSE i \in ends : \A j \in ends : i <= j)

\* lines 100-174
SonyArwTimestamp(metadata, today) ==
    Coalesce(ArwField(metadata, "Composite", "SubSecDateTimeOriginal", today),
    Coalesce(ArwField(metadata, "System", "FileModifyDate", today),
    Coalesce(ArwExifField(metadata, today),
             ArwField(metadata, "IFD0", "ModifyDate", today))))

\* lines 180-199: XML:CreationDateValue, parsed only when it holds a blank
Mp4XmlField(metadata, today) ==
    IF /\ GroupHas(metadata, "XML", "CreationDateValue")
       /\ IsStr(GroupGet(metadata, "XML", "CreationDateValue"))
       /\ Find(GroupGet(metadata, "XML", "CreationDateValue").s, " ") > 0
    THEN Parsed(DateutilParse(DashedDate(GroupGet(metadata, "XML", "CreationDateValue").s),
                              today))
    ELSE None

\* lines 231-257: the manual parse after a ValueError of the parser
ManualFields(ymd_parts, hms_parts, tz_offset, zone) ==
    IF /\ Len(ymd_parts) >= 3 /\ Len(hms_parts) >= 3
       /\ \A k \in 1..3 : IntOk(ymd_parts[k])
       /\ IntOk(hms_parts[1]) /\ IntOk(hms_parts[2]) /\ FloatOk(hms_parts[3])
       /\ ValidDateTime(IntOf(ymd_parts[1]), IntOf(ymd_parts[2]), IntOf(ymd_parts[3]),
                        IntOf(hms_parts[1]), IntOf(hms_parts[2]),
                        FloatOf(hms_parts[3]) \div 1000)
       /\ (Truthy(tz_offset) => zone.ok /\ zone.dt.tz.kind # "naive")
    THEN DateTime(IntOf(ymd_parts[1]), IntOf(ymd_parts[2]), IntOf(ymd_parts[3]),
                  IntOf(hms_parts[1]), IntOf(hms_parts[2]),
                  FloatOf(hms_parts[3]) \div 1000,
                  IF Truthy(tz_offset) THEN TzFixed(IF zone.dt.tz.kind = "local" THEN LocalOffset
                                               ELSE zone.dt.tz.off) ELSE [kind |-> "naive", off |-> 0])
    ELSE None

ManualParts(date_parts, tz_offset, today) ==
    IF Len(date_parts) >= 2
    THEN ManualFields(Split(date_parts[1], "-"), Split(date_parts[2], ":"), tz_offset,
                      DateutilParse("2000-01-01 12:00:00" \o FStr(tz_offset), today))
    ELSE None

\* lines 202-260: QuickTime:CreateDate with QuickTime:TimeZone appended
Mp4QtParsed(date_str, tz_offset, parsed, today) ==
    IF parsed.ok THEN parsed.dt ELSE ManualParts(Split(date_str, " "), tz_offset, today)

\* lines 206-213: the text after its rewriting
Mp4QtRewritten(date_str, tz_offset, today) ==
    Mp4QtParsed(date_str, tz_offset,
                DateutilParse(WithOffset(date_str, tz_offset), today), today)

Mp4QtField(metadata, today) ==
    Mp4QtRewritten(IF Contains(GroupGet(metadata, "QuickTime", "CreateDate").s, ":")
                   THEN DashedDate(GroupGet(metadata, "QuickTime", "CreateDate").s)
                   ELSE GroupGet(metadata, "QuickTime", "CreateDate").s,
                   GroupGet(metadata, "QuickTime", "TimeZone"), today)

\* one .mp4 candidate parsed as it stands (lines 263-276)
Mp4RawField(metadata, group, key, today) ==
    IF GroupHas(metadata, group, key) /\ IsStr(GroupGet(metadata, group, key))
    THEN Parsed(DateutilParse(GroupGet(metadata, group, key).s, today))
    ELSE None

\* line 206: ':' in date_str raises TypeError, outside every try block, when
\* QuickTime:CreateDate is consulted and is not a str
SonyMp4Raises(metadata, today) ==
    /\ Mp4XmlField(metadata, today) = None
    /\ GroupHas(metadata, "QuickTime", "CreateDate")
    /\ ~IsStr(GroupGet(metadata, "QuickTime", "CreateDate"))

\* lines 176-276, when line 206 does not raise
SonyMp4Timestamp(metadata, today) ==
    Coalesce(Mp4XmlField(metadata, today),
    Coalesce(IF GroupHas(metadata, "QuickTime", "CreateDate")
             THEN Mp4QtField(metadata, today) ELSE None,
    Coalesce(Mp4RawField(metadata, "System", "FileModifyDate", today),
             Mp4RawField(metadata, "XML", "LastUpdate", today))))

\* lines 77-78
is_sony_arw(filename) == Lower(get_file_extension(filename)) = ".arw"

is_sony_mp4(filename) == Lower(get_file_extension(filename)) = ".mp4" /\ Char(filename, 1) = "C"

\* lines 92-276
SonyTimestamp(filename, metadata, today) ==
    IF is_sony_arw(filename) THEN SonyArwTimestamp(metadata, today)
    ELSE IF is_sony_mp4(filename) THEN SonyMp4Timestamp(metadata, today)
    ELSE None

\* lines 278-297: the timestamp process() goes on with, None when there is none
ChooseTimestamp(sony_file, sony_timestamp, filename_timestamp, metadata_timestamp) ==
    IF sony_file
    THEN Coalesce(sony_timestamp, metadata_timestamp)
    ELSE Coalesce(filename_timestamp, metadata_timestamp)

MetadataTimestamp(sony_timestamp, metadata, timezone, today) ==
    IF sony_timestamp # None THEN sony_timestamp
    ELSE extract_timestamp_from_metadata(metadata, timezone, today)

ResolveFrom(filename, sony_timestamp, metadata, timezone, today) ==
    ChooseTimestamp(is_sony_arw(filename) \/ is_sony_mp4(filename),
                    sony_timestamp,
                    extract_timestamp_from_filename(filename),
                    MetadataTimestamp(sony_timestamp, metadata, timezone, today))

ResolveTimestamp(filename, metadata, timezone, today) ==
    ResolveFrom(filename, SonyTimestamp(filename, metadata, today), metadata, timezone,
                today)

(***************************************************************************)
(* file_utils.create_output_directory and the decisions of one file        *)
(***************************************************************************)
\* Path(a) / b
Join(a, b) == a \o "/" \o b

\* a tree that stops at the month
create_output_directory_ByMonth(base_dir, timestamp, media_type) ==
    Join(IF media_type = "image" THEN Join(base_dir, "photos")
         ELSE IF media_type = "video" THEN Join(base_dir, "videos")
         ELSE base_dir,
         Pad(timestamp.y, 4) \o "/" \o Pad(timestamp.y, 4) \o "-" \o Pad(timestamp.mo, 2))

\* lines 60-73: the directory; line 74 makes it
create_output_directory(base_dir, timestamp, media_type) ==
    LET year == Pad(timestamp.y, 4)
        month == Pad(timestamp.mo, 2)
        day == Pad(timestamp.d, 2)
        base_path == IF media_type = "image" THEN Join(base_dir, "photos")
                     ELSE IF media_type = "video" THEN Join(base_dir, "videos")
                     ELSE base_dir
    IN  Join(Join(Join(base_path, year), year \o "-" \o month),
             year \o "-" \o month \o "-" \o day)

NoPlan ==
    [stage |-> "none", device_type |-> NoneS, media_type |-> NoneS, timestamp |-> None,
     output_dir |-> NoneS, new_filename |-> NoneS, output_path |-> NoneS]

Rejected(stage, device_type, media_type) ==
    [NoPlan EXCEPT !.stage = stage, !.device_type = device_type,
                   !.media_type = media_type]

\* lines 309-316 (main.py 204-205): the output path, when there is a filename
PlanOfNames(device_type, media_type, timestamp, output_dir, new_filename) ==
    [stage |-> IF new_filename = "" THEN "no_filename" ELSE "ready",
     device_type |-> device_type, media_type |-> media_type, timestamp |-> timestamp,
     output_dir |-> output_dir, new_filename |-> new_filename,
     output_path |-> Join(output_dir, new_filename)]

\* date_str, time_str = get_formatted_timestamp(timestamp), then the filename
GenerateFrom(filename, metadata, device_type, media_type, formatted) ==
    _generate_new_filename(filename, metadata, device_type, media_type,
                           formatted.date_str, formatted.time_str)

\* file_processor.py lines 299-316
PlanOfTimestamp(filename, metadata, device_type, media_type, timestamp, output_base_dir) ==
    IF timestamp = None THEN Rejected("no_timestamp", device_type, media_type)
    ELSE PlanOfNames(device_type, media_type, timestamp,
                     create_output_directory(output_base_dir, timestamp, media_type),
                     GenerateFrom(filename, metadata, device_type, media_type,
                                  get_formatted_timestamp(timestamp)))

\* the plan without the check of the two kinds
PlanOfKinds_Unchecked(filename, metadata, device_type, media_type, output_base_dir, timezone, today) ==
    IF is_sony_mp4(filename) /\ SonyMp4Raises(metadata, today)
    THEN Rejected("raise", device_type, media_type)
    ELSE PlanOfTimestamp(filename, metadata, device_type, media_type,
                         ResolveTimestamp(filename, metadata, timezone, today),
                         output_base_dir)

\* lines 65-297
PlanOfKinds(filename, metadata, device_type, media_type, output_base_dir, timezone, today) ==
    IF device_type = NoneS \/ media_type = NoneS
    THEN Rejected("unclassified", device_type, media_type)
    ELSE IF is_sony_mp4(filename) /\ SonyMp4Raises(metadata, today)
    THEN Rejected("raise", device_type, media_type)
    ELSE PlanOfTimestamp(filename, metadata, device_type, media_type,
                         ResolveTimestamp(filename, metadata, timezone, today),
                         output_base_dir)

\* process() without the check of lines 61-63: the kinds are identified for
\* an empty metadata as well
PlanOfMetadata_WithoutMetadataCheck(filename, metadata, output_base_dir, timezone, today) ==
    PlanOfKinds(filename, metadata, _identify_device_type(filename, metadata),
                _identify_media_type(filename), output_base_dir, timezone, today)

\* lines 59-68
PlanOfMetadata(filename, metadata, output_base_dir, timezone, today) ==
    IF ~Truthy(metadata) THEN Rejected("no_metadata", NoneS, NoneS)
    ELSE PlanOfKinds(filename, metadata, _identify_device_type(filename, metadata),
                     _identify_media_type(filename), output_base_dir, timezone, today)

\* FileProcessor.process, lines 59-316, for a file that exists: how far it
\* gets before the check of the output path, and what it has computed by then
ProcessPlan(filename, exif, output_base_dir, timezone, today) ==
    PlanOfMetadata(filename, extract_metadata(exif), output_base_dir, timezone, today)

\* main.py lines 173-183: the directory the dry run prints
ProposedOutputDir(output_dir, timestamp, media_type) ==
    Join(IF media_type = "image" THEN Join(output_dir, "photos")
         ELSE IF media_type = "video" THEN Join(output_dir, "videos")
         ELSE output_dir,
         Pad(timestamp.y, 4) \o "/" \o Pad(timestamp.mo, 2))

\* main.py lines 160-163
DryRunTimestamp(device_type, filename_timestamp, metadata_timestamp) ==
    IF device_type = "sony_camera" THEN metadata_timestamp
    ELSE Coalesce(filename_timestamp, metadata_timestamp)

\* main.py lines 169-210
DryRunOfTimestamp(filename, metadata, device_type, media_type, timestamp, output_dir) ==
    IF timestamp = None THEN Rejected("no_timestamp", device_type, media_type)
    ELSE PlanOfNames(device_type, media_type, timestamp,
                     ProposedOutputDir(output_dir, timestamp, media_type),
                     GenerateFrom(filename, metadata, device_type, media_type,
                                  get_formatted_timestamp(timestamp)))

\* main.py lines 152-163.  The device is identified while processor.metadata
\* is still the empty dict of the constructor.
DryRunOfMetadata(filename, metadata, device_type, output_dir, timezone, today) ==
    DryRunOfTimestamp(filename, metadata, device_type, _identify_media_type(filename),
                      DryRunTimestamp(device_type,
                                      extract_timestamp_from_filename(filename),
                                      extract_timestamp_from_metadata(metadata, timezone,
                                                                      today)),
                      output_dir)

\* main.process_files, lines 151-210: what the dry-run branch derives
DryRunPlan(filename, exif, output_dir, timezone, today) ==
    DryRunOfMetadata(filename, extract_metadata(exif),
                     _identify_device_type(filename, EmptyDict), output_dir, timezone,
                     today)

(***************************************************************************)
(* The files of the runs: a name and what exiftool prints for it           *)
(***************************************************************************)
OutputDir == "out"

\* one group of exiftool's -g1 output
Group(pairs) == Dict(pairs)

Catalog ==
    << [name |-> "DJI_20230615143022_0007_D.jpg",
        exif |-> Dict(<< <<"SourceFile", Str("in/DJI_20230615143022_0007_D.jpg")>>,
                         <<"IFD0", Group(<< <<"Make", Str("DJI")>> >>)>> >>)],
       [name |-> "DJI_20230615143022_0007_D.jpeg",
        exif |-> Dict(<< <<"SourceFile", Str("in/DJI_20230615143022_0007_D.jpeg")>>,
                         <<"IFD0", Group(<< <<"Make", Str("DJI")>> >>)>> >>)],
       [name |-> "holiday.jpg",
        exif |-> Dict(<< <<"SourceFile", Str("in/holiday.jpg")>>,
                         <<"ExifIFD", Group(<< <<"DateTimeOriginal",
                                                 Str("2023-06-15 10:00:00")>> >>)>> >>)],
       [name |-> "DJI_0001.txt",
        exif |-> Dict(<< <<"SourceFile", Str("in/DJI_0001.txt")>> >>)],
       [name |-> "DJI_0042.jpg",
        exif |-> Dict(<< <<"SourceFile", Str("in/DJI_0042.jpg")>>,
                         <<"ExifIFD", Group(<< <<"DateTimeOriginal",
                                                 Str("2023:06:15 23:30:00")>> >>)>> >>)],
       [name |-> "DJI_0043.jpg",
        exif |-> Dict(<< <<"SourceFile", Str("in/DJI_0043.jpg")>> >>)],
       [name |-> "DSC00123.ARW",
        exif |-> ExiftoolFailed],
       [name |-> "C0002.MP4",
        exif |-> Dict(<< <<"SourceFile", Str("in/C0002.MP4")>>,
                         <<"QuickTime", Group(<< <<"CreateDate", Num(0)>> >>)>> >>)],
       [name |-> "DSC00124.ARW",
        exif |-> Dict(<< <<"SourceFile", Str("in/DSC00124.ARW")>>,
                         <<"IFD0", Group(<< <<"ModifyDate",
                                              Str("2023:06:16 09:00:00")>> >>)>> >>)],
       [name |-> "DJI_20230615143022_0008_D.jpg",
        exif |-> ExiftoolFailed] >>

Files == 1..Len(Catalog)

\* the calendar days a run can happen on
Days == << [y |-> 2024, mo |-> 1, d |-> 10], [y |-> 2024, mo |-> 1, d |-> 11] >>

\* str(file_path) of a catalog file
SourcePath(f) == Join("in", Catalog[f].name)

(***************************************************************************)
(* The state of the program and of the file system it works on             *)
(***************************************************************************)
\* the longest list of files of a run, and how many operations of the
\* environment (exiftool, mkdir, copy, sqlite, remove) may fail in a history
MaxFiles == 2
MaxFaults == 1

VARIABLES
    listing,        \* the input directory in iteration order (catalog files)
    sources,        \* the catalog files that exist in the input directory
    outputs,        \* the files of the output tree: [path, content]
    dirs,           \* the directories made in the output tree
    db,             \* the tracking store: [file, table, rows]
    args,           \* [dry_run, remove_processed, timezone]
    today,          \* the day of the run, an index of Days
    entry,          \* what started the run: "main" or "process_files"
    pc,             \* where the run is
    media_files,    \* process_files' list
    done,           \* how many files of the list the loop has finished
    success_count,
    error_count,
    output_path,    \* what processor.process() returned for the current file
    exit_code,      \* the exit status of the process, [t |-> "running"] while it runs
    faults,         \* the failures of the environment so far
    run,            \* the first or the second run of the history
    trail,          \* history: one record for every file the loop has taken up
    copies,         \* history: how often each catalog file has been copied
    earlier,        \* history: the files copied by a run before this one
    store_failed,   \* history: whether sqlite has failed
    probe,          \* a filename and a metadata bag handed to the resolvers
    memo            \* PlanTable and DryRunTable, worked out once

vars == << listing, sources, outputs, dirs, db, args, today, entry, pc, media_files,
           done, success_count, error_count, output_path, exit_code, faults, run,
           trail, copies, earlier, store_failed,
           probe, memo >>

NoProbe ==
    [name |-> "", literal |-> << >>, bag |-> 0, filename_timestamp |-> None,
     timestamp |-> None, extracted |-> FALSE, resolved |-> FALSE,
     device_type |-> NoneS, media_type |-> NoneS, identified |-> FALSE,
     components |-> EmptyDict, new_filename |-> NoneS, generated |-> FALSE,
     device_type_again |-> NoneS, identified_again |-> FALSE]

\* config.py line 69: the store is one fixed file beside the package, the same
\* for every output directory
EmptyDb == [file |-> FALSE, table |-> FALSE, rows |-> {}]

\* an exit that reports a run without media files as a failure
SysExit_NoneFails(v) == IF v = NoneV THEN 1 ELSE v.n

\* sys.exit(arg), process_media.py line 19: None is exit status 0
SysExit(v) == IF v = NoneV THEN 0 ELSE v.n

\* << Op(1), ..., Op(n) >>
RECURSIVE Tabulate(_, _)
Tabulate(Op(_), n) == IF n = 0 THEN << >> ELSE Append(Tabulate(Op, n - 1), Op(n))

\* the decisions for every catalog file on every day
PlanTable ==
    Tabulate(LAMBDA f :
                 Tabulate(LAMBDA d : ProcessPlan(Catalog[f].name, Catalog[f].exif,
                                                 OutputDir, "local", Days[d]),
                          Len(Days)),
             Len(Catalog))

DryRunTable ==
    Tabulate(LAMBDA f :
                 Tabulate(LAMBDA d : DryRunPlan(Catalog[f].name, Catalog[f].exif,
                                                OutputDir, "local", Days[d]),
                          Len(Days)),
             Len(Catalog))

Init ==
    /\ memo = [process |-> PlanTable, dry_run |-> DryRunTable]
    /\ listing \in { q \in UNION { [1..k -> Files] : k \in 0..MaxFiles } :
                        \A a, b \in 1..Len(q) : a # b => q[a] # q[b] }
    /\ sources = { listing[k] : k \in 1..Len(listing) }
    /\ outputs = {}
    /\ dirs = {}
    /\ db = EmptyDb
    /\ args \in [dry_run : BOOLEAN, remove_processed : BOOLEAN, timezone : {"local"}]
    /\ today = 1
    /\ entry = "none"
    /\ pc = "start"
    /\ media_files = <<>>
    /\ done = 0
    /\ success_count = 0
    /\ error_count = 0
    /\ output_path = NoneS
    /\ exit_code = [t |-> "running"]
    /\ faults = 0
    /\ run = 1
    /\ trail = <<>>
    /\ copies = [f \in Files |-> 0]
    /\ earlier = {}
    /\ store_failed = FALSE
    /\ probe = NoProbe

(***************************************************************************)
(* file_utils: the tracking store                                          *)
(***************************************************************************)
\* whether an operation of the environment may fail now
Failures(kinds) == IF faults < MaxFaults THEN {"none"} \cup kinds ELSE {"none"}

\* initialize_processed_files_db, lines 97-116: the file and its table, or,
\* when sqlite fails, a message and nothing else
initialize_processed_files_db(store, fail) ==
    IF fail = "sqlite" THEN store
    ELSE [store EXCEPT !.file = TRUE, !.table = TRUE]

\* mark_file_as_processed, lines 128-142: INSERT OR REPLACE on the unique
\* source_path.  connect() makes the file; without the table the INSERT raises
\* and the except clause prints a warning.
mark_file_as_processed(store, source_path, path, fail) ==
    IF fail = "sqlite" THEN store
    ELSE IF ~store.table THEN [store EXCEPT !.file = TRUE]
    ELSE [store EXCEPT !.rows = { r \in @ : r.source_path # source_path }
                                  \cup { [source_path |-> source_path,
                                          output_path |-> path] }]

\* the check without its look into the store: only the output path counts
is_file_already_processed_OutputOnly(store, files, source_path, path, fail) ==
    [result |-> \E o \in files : o.path = path,
     store |-> IF ~store.file THEN initialize_processed_files_db(store, fail) ELSE store]

\* the check by the row of the source path alone, whether or not the output
\* file is there
is_file_already_processed_StoreOnly(store, files, source_path, path, fail) ==
    IF ~store.file
    THEN [result |-> FALSE, store |-> initialize_processed_files_db(store, fail)]
    ELSE IF fail = "sqlite" \/ ~store.table
    THEN [result |-> FALSE, store |-> store]
    ELSE [result |-> \E r \in store.rows : r.source_path = source_path,
          store |-> store]

\* is_file_already_processed, lines 166-191: [result, store afterwards]
is_file_already_processed(store, files, source_path, path, fail) ==
    IF \E o \in files : o.path = path
    THEN [result |-> TRUE, store |-> store]
    ELSE IF ~store.file
    THEN [result |-> FALSE, store |-> initialize_processed_files_db(store, fail)]
    ELSE IF fail = "sqlite" \/ ~store.table
    THEN [result |-> FALSE, store |-> store]
    ELSE [result |-> \E r \in store.rows : r.source_path = source_path,
          store |-> store]

(***************************************************************************)
(* main.find_media_files and the start of a run                            *)
(***************************************************************************)
\* lines 106-108: the files of the directory with a supported extension
find_media_files ==
    SelectSeq(listing,
              LAMBDA f : /\ f \in sources
                         /\ Lower(get_file_extension(Catalog[f].name))
                                \in SUPPORTED_EXTENSIONS)

\* the store set up whatever the mode
StoreWanted_Always(dry_run) == TRUE

\* process_files, lines 134-139: the counters, and the store unless dry_run
StoreWanted(dry_run) == ~dry_run

BeginProcessFiles(files, fail) ==
    /\ media_files' = files
    /\ done' = 0
    /\ success_count' = 0
    /\ error_count' = 0
    /\ output_path' = NoneS
    /\ trail' = << >>
    /\ db' = IF StoreWanted(args.dry_run) THEN initialize_processed_files_db(db, fail)
             ELSE db
    /\ faults' = IF fail = "none" THEN faults ELSE faults + 1
    /\ store_failed' = (store_failed \/ fail = "sqlite")
    /\ pc' = "loop"

\* what no step of a run changes
givenVars == << listing, args, memo, probe, earlier >>

\* main(), lines 244-268, run by process_media.py
Main ==
    /\ pc = "start"
    /\ entry' = "main"
    /\ IF find_media_files = << >>
       THEN /\ exit_code' = SysExit(NoneV)
            /\ pc' = "exited"
            /\ UNCHANGED << media_files, done, success_count, error_count, output_path,
                            trail, db, faults, store_failed >>
       ELSE /\ \E fail \in Failures(IF args.dry_run THEN {} ELSE {"sqlite"}) :
                  BeginProcessFiles(find_media_files, fail)
            /\ UNCHANGED exit_code
    /\ UNCHANGED << givenVars, sources, outputs, dirs, today, run, copies >>

\* process_files called by other code with a list main() would not build: one
\* with a file that is gone or whose extension is not supported
CallProcessFiles ==
    /\ pc = "start"
    /\ listing # find_media_files
    /\ entry' = "process_files"
    /\ \E fail \in Failures(IF args.dry_run THEN {} ELSE {"sqlite"}) :
           BeginProcessFiles(listing, fail)
    /\ UNCHANGED << givenVars, sources, outputs, dirs, today, exit_code, run, copies >>

(***************************************************************************)
(* main.process_files: one file of the loop                                *)
(***************************************************************************)
\* the list walked from its end
CurrentFile_Backwards == media_files[Len(media_files) - done]

\* line 142: for file_path in media_files
CurrentFile == media_files[done + 1]

Event(f, dry, stage, outcome, plan) ==
    [file |-> f, dry |-> dry, stage |-> stage, outcome |-> outcome,
     device_type |-> plan.device_type, media_type |-> plan.media_type,
     timestamp |-> plan.timestamp, path |-> plan.output_path]

\* FileProcessor(...) and processor.process(), file_processor.py lines 31-328,
\* under one choice of what fails: the stage it ends in, what it leaves on the
\* disk, and whether the failure chosen was met on the way
Process(f, fail) ==
    LET plan == memo.process[f][today]
        untouched == [stage |-> "", hit |-> FALSE, dirs |-> dirs, db |-> db,
                      copied |-> FALSE]
        made == dirs \cup {plan.output_dir}
        check == is_file_already_processed(db, outputs, SourcePath(f),
                                           plan.output_path, fail)
        checkHit == /\ fail = "sqlite"
                    /\ ~\E o \in outputs : o.path = plan.output_path
    IN  IF fail = "exiftool"
        THEN [untouched EXCEPT !.stage = "constructor", !.hit = TRUE]
        ELSE IF f \notin sources
        THEN [untouched EXCEPT !.stage = "missing"]
        ELSE IF plan.stage \notin {"ready", "no_filename"}
        THEN [untouched EXCEPT !.stage = plan.stage]
        ELSE IF fail = "mkdir"
        THEN [untouched EXCEPT !.stage = "mkdir_failed", !.hit = TRUE]
        ELSE IF plan.stage = "no_filename"
        THEN [untouched EXCEPT !.stage = "no_filename", !.dirs = made]
        ELSE IF check.result
        THEN [untouched EXCEPT !.stage = "already", !.dirs = made, !.db = check.store,
                               !.hit = checkHit]
        ELSE IF fail = "copy"
        THEN [untouched EXCEPT !.stage = "copy_failed", !.dirs = made,
                               !.db = check.store, !.hit = TRUE]
        ELSE [untouched EXCEPT !.stage = "copied", !.dirs = made, !.db = check.store,
                               !.hit = checkHit, !.copied = TRUE]

\* a real run takes up the next file and goes on to the record and the
\* deletion when the copy raised, as it does when the copy was made
ProcessFile_CopyFailureUnnoticed ==
    /\ pc = "loop"
    /\ done < Len(media_files)
    /\ ~args.dry_run
    /\ \E fail \in Failures({"exiftool", "mkdir", "sqlite", "copy"}) :
         LET f == CurrentFile
             plan == memo.process[f][today]
             r == Process(f, fail)
         IN  /\ fail = "none" \/ r.hit
             /\ faults' = IF fail = "none" THEN faults ELSE faults + 1
             /\ store_failed' = (store_failed \/ fail = "sqlite")
             /\ dirs' = r.dirs
             /\ db' = r.db
             /\ IF r.copied \/ r.stage = "copy_failed"
                THEN /\ outputs' = IF r.copied
                                   THEN outputs \cup { [path |-> plan.output_path,
                                                        content |-> f] }
                                   ELSE outputs
                     /\ copies' = IF r.copied THEN [copies EXCEPT ![f] = @ + 1] ELSE copies
                     /\ output_path' = plan.output_path
                     /\ pc' = "mark"
                     /\ trail' = Append(trail, Event(f, FALSE, r.stage, "success", plan))
                     /\ UNCHANGED << done, error_count >>
                ELSE /\ output_path' = NoneS
                     /\ error_count' = error_count + 1
                     /\ done' = done + 1
                     /\ trail' = Append(trail, Event(f, FALSE, r.stage, "error", plan))
                     /\ UNCHANGED << outputs, copies, pc >>
    /\ UNCHANGED << givenVars, sources, today, entry, media_files, success_count,
                    exit_code, run >>

\* lines 145-147 and 213-237: a real run takes up the next file
ProcessFile ==
    /\ pc = "loop"
    /\ done < Len(media_files)
    /\ ~args.dry_run
    /\ \E fail \in Failures({"exiftool", "mkdir", "sqlite", "copy"}) :
         LET f == CurrentFile
             plan == memo.process[f][today]
             r == Process(f, fail)
         IN  /\ fail = "none" \/ r.hit
             /\ faults' = IF fail = "none" THEN faults ELSE faults + 1
             /\ store_failed' = (store_failed \/ fail = "sqlite")
             /\ dirs' = r.dirs
             /\ db' = r.db
             /\ IF r.copied
                THEN /\ outputs' = outputs \cup { [path |-> plan.output_path,
                                                   content |-> f] }
                     /\ copies' = [copies EXCEPT ![f] = @ + 1]
                     /\ output_path' = plan.output_path
                     /\ pc' = "mark"
                     /\ trail' = Append(trail, Event(f, FALSE, r.stage, "success", plan))
                     /\ UNCHANGED << done, error_count >>
                ELSE /\ output_path' = NoneS
                     /\ error_count' = error_count + 1
                     /\ done' = done + 1
                     /\ trail' = Append(trail, Event(f, FALSE, r.stage, "error", plan))
                     /\ UNCHANGED << outputs, copies, pc >>
    /\ UNCHANGED << givenVars, sources, today, entry, media_files, success_count,
                    exit_code, run >>

Mark_FailureIsAnError ==
    /\ pc = "mark"
    /\ \E fail \in Failures({"sqlite"}) :
         /\ db' = mark_file_as_processed(db, SourcePath(CurrentFile), output_path, fail)
         /\ faults' = IF fail = "none" THEN faults ELSE faults + 1
         /\ store_failed' = (store_failed \/ fail = "sqlite")
         /\ IF fail = "none"
            THEN success_count' = success_count + 1 /\ UNCHANGED error_count
            ELSE error_count' = error_count + 1 /\ UNCHANGED success_count
    /\ IF args.remove_processed
       THEN pc' = "remove" /\ UNCHANGED done
       ELSE pc' = "loop" /\ done' = done + 1
    /\ UNCHANGED << givenVars, sources, outputs, dirs, today, entry, media_files,
                    output_path, exit_code, run, trail, copies >>

\* lines 219-223: the row of the copy, the tally, and what comes next
Mark ==
    /\ pc = "mark"
    /\ \E fail \in Failures({"sqlite"}) :
         /\ db' = mark_file_as_processed(db, SourcePath(CurrentFile), output_path, fail)
         /\ faults' = IF fail = "none" THEN faults ELSE faults + 1
         /\ store_failed' = (store_failed \/ fail = "sqlite")
    /\ success_count' = success_count + 1
    /\ IF args.remove_processed
       THEN pc' = "remove" /\ UNCHANGED done
       ELSE pc' = "loop" /\ done' = done + 1
    /\ UNCHANGED << givenVars, sources, outputs, dirs, today, entry, media_files,
                    error_count, output_path, exit_code, run, trail, copies >>

\* lines 224-231: os.remove of the source; its failure is printed
Remove ==
    /\ pc = "remove"
    /\ \E fail \in Failures({"remove"}) :
         /\ sources' = IF fail = "none" THEN sources \ {CurrentFile} ELSE sources
         /\ faults' = IF fail = "none" THEN faults ELSE faults + 1
    /\ pc' = "loop"
    /\ done' = done + 1
    /\ UNCHANGED << givenVars, outputs, dirs, db, today, entry, media_files,
                    success_count, error_count, output_path, exit_code, run, trail,
                    copies, store_failed >>

\* lines 149-212: a dry run takes up the next file
DryRunFile ==
    /\ pc = "loop"
    /\ done < Len(media_files)
    /\ args.dry_run
    /\ \E fail \in Failures({"exiftool"}) :
         LET f == CurrentFile
             plan == memo.dry_run[f][today]
         IN  /\ faults' = IF fail = "none" THEN faults ELSE faults + 1
             /\ IF fail = "exiftool"
                THEN /\ error_count' = error_count + 1
                     /\ trail' = Append(trail, Event(f, TRUE, "constructor", "error",
                                                     NoPlan))
                     /\ UNCHANGED success_count
                ELSE /\ success_count' = success_count + 1
                     /\ trail' = Append(trail, Event(f, TRUE, plan.stage, "success", plan))
                     /\ UNCHANGED error_count
    /\ done' = done + 1
    /\ UNCHANGED << givenVars, sources, outputs, dirs, db, today, entry, pc, media_files,
                    output_path, exit_code, run, copies, store_failed >>

\* line 239: return success_count, error_count
Return ==
    /\ pc = "loop"
    /\ done = Len(media_files)
    /\ pc' = "returned"
    /\ UNCHANGED << givenVars, sources, outputs, dirs, db, today, entry, media_files,
                    done, success_count, error_count, output_path, exit_code, faults,
                    run, trail, copies, store_failed >>

\* main() line 273 and process_media.py line 19
Exit ==
    /\ pc = "returned"
    /\ entry = "main"
    /\ exit_code' = SysExit(IF error_count = 0 THEN Num(0) ELSE Num(1))
    /\ pc' = "exited"
    /\ UNCHANGED << givenVars, sources, outputs, dirs, db, today, entry, media_files,
                    done, success_count, error_count, output_path, faults, run, trail,
                    copies, store_failed >>

\* the same command once more, as a new process, on the same or on a later day
Rerun ==
    /\ (pc = "exited" \/ (pc = "returned" /\ entry = "process_files"))
    /\ run = 1
    /\ run' = 2
    /\ today' \in today..Len(Days)
    /\ earlier' = { f \in Files : copies[f] > 0 }
    /\ pc' = "start"
    /\ entry' = "none"
    /\ media_files' = << >>
    /\ done' = 0
    /\ success_count' = 0
    /\ error_count' = 0
    /\ output_path' = NoneS
    /\ exit_code' = [t |-> "running"]
    /\ trail' = << >>
    /\ UNCHANGED << listing, args, memo, probe, sources, outputs, dirs, db, faults,
                    copies, store_failed >>

Next ==
    \/ Main
    \/ CallProcessFiles
    \/ ProcessFile
    \/ Mark
    \/ Remove
    \/ DryRunFile
    \/ Return
    \/ Exit
    \/ Rerun

Spec == Init /\ [][Next]_vars

(***************************************************************************)
(* The timestamp resolvers applied to filenames of the vendor pattern      *)
(***************************************************************************)
\* what a filename is written from: a prefix, the fields of the vendor stamp
\* (the text and the number it stands for) and a suffix
ProbeFields ==
    [prefix |-> { "", "vlog_" },
     y |-> { <<"0000", 0>>, <<"2023", 2023>>, <<"2024", 2024>> },
     mo |-> { <<"02", 2>>, <<"06", 6>>, <<"13", 13>> },
     d |-> { <<"15", 15>>, <<"29", 29>>, <<"31", 31>> },
     h |-> { <<"14", 14>>, <<"24", 24>> },
     mi |-> { <<"30", 30>> },
     s |-> { <<"22", 22>>, <<"60", 60>> },
     suffix |-> { "_0007_D.jpg", "_0007.MP4", "_0007.arw" }]

\* the metadata bags a file of that name may come with
ProbeBags ==
    << Dict(<< <<"SourceFile", Str("in/probe")>> >>),
       Dict(<< <<"SourceFile", Str("in/probe")>>,
               <<"ExifIFD", Group(<< <<"DateTimeOriginal",
                                       Str("2022-03-04 05:06:07")>> >>)>> >>),
       Dict(<< <<"SourceFile", Str("in/probe")>>,
               <<"IFD0", Group(<< <<"ModifyDate", Str("2021:01:02 03:04:05")>> >>)>>,
               <<"Composite", Group(<< <<"GPSDateTime",
                                         Str("2020-09-08 07:06:05+01:00")>> >>)>> >>),
       \* 4, 5: a Sony still, its shutter count as a number and as text
       Dict(<< <<"SourceFile", Str("in/probe")>>,
               <<"IFD0", Group(<< <<"Make", Str("SONY")>>,
                                  <<"Model", Str("ILCE-7M4")>> >>)>>,
               <<"ExifIFD", Group(<< <<"DateTimeOriginal",
                                       Str("2022-03-04 05:06:07")>> >>)>>,
               <<"Sony", Group(<< <<"ShutterCount", Num(42)>> >>)>> >>),
       Dict(<< <<"SourceFile", Str("in/probe")>>,
               <<"ExifIFD", Group(<< <<"DateTimeOriginal",
                                       Str("2022-03-04 05:06:07")>> >>)>>,
               <<"Sony", Group(<< <<"ShutterCount", Str("n/a")>>,
                                  <<"ShutterCount2", Str(" 42")>> >>)>> >>),
       \* 6, 7: an extractor that writes the field names in lower case
       Dict(<< <<"SourceFile", Str("in/probe")>>,
               <<"make", Str("Sony Corporation")>>,
               <<"ExifIFD", Group(<< <<"DateTimeOriginal",
                                       Str("2022-03-04 05:06:07")>> >>)>> >>),
       Dict(<< <<"SourceFile", Str("in/probe")>>,
               <<"make", Str("DJI")>>,
               <<"model", Str("RCPro")>>,
               <<"ExifIFD", Group(<< <<"DateTimeOriginal",
                                       Str("2022-03-04 05:06:07")>> >>)>> >>),
       \* 8: a make that no rule of the table names
       Dict(<< <<"SourceFile", Str("in/probe")>>,
               <<"IFD0", Group(<< <<"Make", Str("Canon")>>,
                                  <<"Model", Str("EOS R5")>> >>)>>,
               <<"ExifIFD", Group(<< <<"DateTimeOriginal",
                                       Str("2022-03-04 05:06:07")>> >>)>> >>),
       \* 9 to 15: videos, their size and their duration in the forms exiftool
       \* and other extractors write them
       Dict(<< <<"SourceFile", Str("in/probe")>>,
               <<"QuickTime", Group(<< <<"Duration", Str("0:02:34")>> >>)>>,
               <<"Track1", Group(<< <<"ImageWidth", Num(3840)>>,
                                    <<"ImageHeight", Num(2160)>> >>)>>,
               <<"ExifIFD", Group(<< <<"DateTimeOriginal",
                                       Str("2022-03-04 05:06:07")>> >>)>> >>),
       Dict(<< <<"SourceFile", Str("in/probe")>>,
               <<"QuickTime", Group(<< <<"Duration", Num(154)>> >>)>>,
               <<"Track1", Group(<< <<"ImageWidth", Str("1920x1080")>>,
                                    <<"ImageHeight", Str("1920x1080")>> >>)>>,
               <<"ExifIFD", Group(<< <<"DateTimeOriginal",
                                       Str("2022-03-04 05:06:07")>> >>)>> >>),
       Dict(<< <<"SourceFile", Str("in/probe")>>,
               <<"QuickTime", Group(<< <<"Duration", Str("45")>> >>)>>,
               <<"Track1", Group(<< <<"ImageHeight", Num(1080)>>,
                                    <<"Width", Str("1280")>>,
                                    <<"Height", Str("720")>> >>)>>,
               <<"ExifIFD", Group(<< <<"DateTimeOriginal",
                                       Str("2022-03-04 05:06:07")>> >>)>> >>),
       Dict(<< <<"SourceFile", Str("in/probe")>>,
               <<"QuickTime", Group(<< <<"Duration", Str("02:34")>> >>)>>,
               <<"Track1", Group(<< <<"ImageWidth", Num(960)>>,
                                    <<"ImageHeight", Num(540)>> >>)>>,
               <<"ExifIFD", Group(<< <<"DateTimeOriginal",
                                       Str("2022-03-04 05:06:07")>> >>)>> >>),
       Dict(<< <<"SourceFile", Str("in/probe")>>,
               <<"QuickTime", Group(<< <<"Duration", Str("0:00:45")>> >>)>>,
               <<"Track1", Group(<< <<"ImageWidth", Num(1920)>>,
                                    <<"ImageHeight", Num(1080)>> >>)>>,
               <<"XML", Group(<< <<"VideoFormatVideoLayoutPixel", Num(3840)>>,
                                 <<"VideoFormatVideoLayoutNumOfVerticalLine",
                                   Num(2160)>> >>)>>,
               <<"ExifIFD", Group(<< <<"DateTimeOriginal",
                                       Str("2022-03-04 05:06:07")>> >>)>> >>),
       Dict(<< <<"SourceFile", Str("in/probe")>>,
               <<"QuickTime", Group(<< <<"Duration", Num(0)>> >>)>>,
               <<"Track1", Group(<< <<"ImageWidth", Str("n/a")>>,
                                    <<"ImageHeight", Num(1080)>>,
                                    <<"Width", Num(1280)>>,
                                    <<"Height", Num(720)>> >>)>>,
               <<"ExifIFD", Group(<< <<"DateTimeOriginal",
                                       Str("2022-03-04 05:06:07")>> >>)>> >>),
       Dict(<< <<"SourceFile", Str("in/probe")>>,
               <<"QuickTime", Group(<< <<"Duration", Str("1:02:34")>> >>)>>,
               <<"Composite", Group(<< <<"ImageSize", Str("1280x720")>> >>)>>,
               <<"ExifIFD", Group(<< <<"DateTimeOriginal",
                                       Str("2022-03-04 05:06:07")>> >>)>> >>),
       Dict(<< <<"SourceFile", Str("in/probe")>>,
               <<"QuickTime", Group(<< <<"Duration", Str("0")>> >>)>>,
               <<"Track1", Group(<< <<"ImageWidth", Num(2688)>>,
                                    <<"ImageHeight", Num(1512)>> >>)>>,
               <<"ExifIFD", Group(<< <<"DateTimeOriginal",
                                       Str("2022-03-04 05:06:07")>> >>)>> >>) >>

\* a bag of Sony candidate fields, each absent (0), a date as exiftool prints
\* it (1) or text that is no date (2).  Below 162 a still image with the
\* fields of file_processor.py lines 105-174: in k the choices for
\* SubSecDateTimeOriginal, FileModifyDate, DateTimeOriginal and ModifyDate,
\* then whether OffsetTimeOriginal is there.  From 162 a video with the fields
\* of lines 182-276: the choices for CreationDateValue, CreateDate,
\* FileModifyDate and LastUpdate, then whether the QuickTime TimeZone is there
CandidateBag(k) ==
    LET n == k % 162
        Choice(place) == (n \div (3 ^ place)) % 3
        Member(key, choice, date) ==
            IF choice = 0 THEN << >>
            ELSE << <<key, Str(IF choice = 1 THEN date ELSE "n/a")>> >>
        GroupOf(name, members) ==
            IF members = << >> THEN << >> ELSE << <<name, Group(members)>> >>
    IN  IF k < 162
        THEN Dict(<< <<"SourceFile", Str("in/probe")>> >>
                  \o GroupOf("System", Member("FileModifyDate", Choice(1),
                                              "2023:06:12 10:00:00+05:00"))
                  \o GroupOf("IFD0", Member("ModifyDate", Choice(3),
                                            "2023:06:14 10:00:00"))
                  \o GroupOf("ExifIFD", Member("DateTimeOriginal", Choice(2),
                                               "2023:06:13 10:00:00")
                                        \o Member("OffsetTimeOriginal", n \div 81,
                                                  "+05:00"))
                  \o GroupOf("Composite", Member("SubSecDateTimeOriginal", Choice(0),
                                                 "2023:06:11 10:00:00.500+05:00")))
        ELSE Dict(<< <<"SourceFile", Str("in/probe")>> >>
                  \o GroupOf("System", Member("FileModifyDate", Choice(2),
                                              "2023:06:12 10:00:00+05:00"))
                  \o GroupOf("QuickTime", Member("CreateDate", Choice(1),
                                                 "2023:06:16 10:00:00")
                                          \o Member("TimeZone", n \div 81, "+05:00"))
                  \o GroupOf("XML", Member("CreationDateValue", Choice(0),
                                           "2023:06:15 10:00:00+05:00")
                                    \o Member("LastUpdate", Choice(3),
                                              "2023:06:17 10:00:00+05:00")))

\* a bag whose entries repeat a key: SourceFile and then, for each of three
\* places, nothing (0), one of three groups that share Make and ModifyDate
\* (1-3), or a top-level ModifyDate (4)
DuplicateBag(k) ==
    LET Entry(choice) ==
            IF choice = 0 THEN << >>
            ELSE IF choice = 1
            THEN << <<"IFD0", Group(<< <<"Make", Str("SONY")>>,
                                       <<"ModifyDate", Str("2021-01-01 01:00:00")>> >>)>> >>
            ELSE IF choice = 2
            THEN << <<"ExifIFD", Group(<< <<"ModifyDate", Str("2022-02-02 02:00:00")>>,
                                          <<"Make", Str("DJI")>> >>)>> >>
            ELSE IF choice = 3
            THEN << <<"XML", Group(<< <<"Make", Str("Canon")>> >>)>> >>
            ELSE << <<"ModifyDate", Str("2023-03-03 03:00:00")>> >>
    IN  Dict(<< <<"SourceFile", Str("in/probe")>> >>
             \o Entry(k % 5) \o Entry((k \div 5) % 5) \o Entry(k \div 25))

\* the bag of a number: ProbeBags, then the 324 bags of candidate fields,
\* then the 125 bags of repeated keys
ProbeBag(k) ==
    IF k <= Len(ProbeBags) THEN ProbeBags[k]
    ELSE IF k <= Len(ProbeBags) + 324 THEN CandidateBag(k - Len(ProbeBags) - 1)
    ELSE DuplicateBag(k - Len(ProbeBags) - 325)

ProbeInit ==
    /\ memo = [process |-> << >>, dry_run |-> << >>]
    /\ listing = << >>
    /\ sources = {}
    /\ outputs = {}
    /\ dirs = {}
    /\ db = EmptyDb
    /\ args = [dry_run |-> FALSE, remove_processed |-> FALSE, timezone |-> "local"]
    /\ today = 1
    /\ entry = "none"
    /\ pc = "probe"
    /\ media_files = << >>
    /\ done = 0
    /\ success_count = 0
    /\ error_count = 0
    /\ output_path = NoneS
    /\ exit_code = [t |-> "running"]
    /\ faults = 0
    /\ run = 1
    /\ trail = << >>
    /\ copies = [f \in Files |-> 0]
    /\ earlier = {}
    /\ store_failed = FALSE
    /\ \E prefix \in ProbeFields.prefix, y \in ProbeFields.y, mo \in ProbeFields.mo,
          d \in ProbeFields.d, h \in ProbeFields.h, mi \in ProbeFields.mi,
          s \in ProbeFields.s, suffix \in ProbeFields.suffix,
          bag \in 1..Len(ProbeBags) :
          probe = [NoProbe EXCEPT
                     !.name = prefix \o "DJI_" \o y[1] \o mo[1] \o d[1] \o h[1]
                                     \o mi[1] \o s[1] \o suffix,
                     !.literal = << y[2], mo[2], d[2], h[2], mi[2], s[2] >>,
                     !.bag = bag]

\* timestamp_utils.extract_timestamp_from_filename applied to the name
ExtractFromFilename ==
    /\ pc = "probe"
    /\ ~probe.extracted
    /\ probe' = [probe EXCEPT
                   !.filename_timestamp = extract_timestamp_from_filename(probe.name),
                   !.extracted = TRUE]
    /\ UNCHANGED << listing, sources, outputs, dirs, db, args, today, entry, pc,
                    media_files, done, success_count, error_count, output_path,
                    exit_code, faults, run, trail, copies, earlier, store_failed, memo >>

\* FileProcessor.process lines 92-297 applied to the name and its metadata bag
Resolve ==
    /\ pc = "probe"
    /\ ~probe.resolved
    /\ probe' = [probe EXCEPT
                   !.timestamp = ResolveTimestamp(probe.name,
                                                  extract_metadata(ProbeBag(probe.bag)),
                                                  args.timezone, Days[today]),
                   !.resolved = TRUE]
    /\ UNCHANGED << listing, sources, outputs, dirs, db, args, today, entry, pc,
                    media_files, done, success_count, error_count, output_path,
                    exit_code, faults, run, trail, copies, earlier, store_failed, memo >>

ProbeNext ==
    \/ ExtractFromFilename
    \/ Resolve

ProbeSpec == ProbeInit /\ [][ProbeNext]_vars

(***************************************************************************)
(* Classification, timestamp and filename of one file, and the             *)
(* classification of the file under its new filename                       *)
(***************************************************************************)
\* the filenames handed to FileProcessor
NamingNames ==
    { "DJI_20230615143022_0007_D.jpg", "DJI_20230615143022_0007_D.MP4",
      "DJI_20230615143022_0007_D.arw", "DSC00001.JPG", "DSC00124.ARW",
      "C0001.MP4", "A0001.MP4", "C0001.backup.mp4", "Clip.mp4",
      "screen-20230615-143022.mp4", "screen-DJI_0001.mp4", "IMG_0001.jpg",
      "20230616-090000-000042-Sony-ILCE7M4.jpg", "DSC_RCPro_0001.mp4" }

NamingInit ==
    /\ memo = [process |-> << >>, dry_run |-> << >>]
    /\ listing = << >>
    /\ sources = {}
    /\ outputs = {}
    /\ dirs = {}
    /\ db = EmptyDb
    /\ args = [dry_run |-> FALSE, remove_processed |-> FALSE, timezone |-> "local"]
    /\ today = 1
    /\ entry = "none"
    /\ pc = "probe"
    /\ media_files = << >>
    /\ done = 0
    /\ success_count = 0
    /\ error_count = 0
    /\ output_path = NoneS
    /\ exit_code = [t |-> "running"]
    /\ faults = 0
    /\ run = 1
    /\ trail = << >>
    /\ copies = [f \in Files |-> 0]
    /\ earlier = {}
    /\ store_failed = FALSE
    /\ \E name \in NamingNames, bag \in 1..Len(ProbeBags) :
          probe = [NoProbe EXCEPT !.name = name, !.bag = bag]

\* FileProcessor.process lines 65-67: the device and the media kind
Identify ==
    /\ pc = "probe"
    /\ ~probe.identified
    /\ probe' = [probe EXCEPT
                   !.device_type = _identify_device_type(
                                       probe.name, extract_metadata(ProbeBag(probe.bag))),
                   !.media_type = _identify_media_type(probe.name),
                   !.identified = TRUE]
    /\ UNCHANGED << listing, sources, outputs, dirs, db, args, today, entry, pc,
                    media_files, done, success_count, error_count, output_path,
                    exit_code, faults, run, trail, copies, earlier, store_failed, memo >>

\* FileProcessor.process lines 299-313: the new filename of a file that has a
\* device, a media kind and a timestamp
Generate ==
    /\ pc = "probe"
    /\ probe.identified /\ probe.resolved /\ ~probe.generated
    /\ probe.device_type # NoneS /\ probe.media_type # NoneS
    /\ probe.timestamp # None
    /\ probe' = [probe EXCEPT
                   !.components =
                       Components(probe.name, extract_metadata(ProbeBag(probe.bag)),
                                  probe.device_type, probe.media_type,
                                  get_formatted_timestamp(probe.timestamp).date_str,
                                  get_formatted_timestamp(probe.timestamp).time_str),
                   !.new_filename =
                       GenerateFrom(probe.name, extract_metadata(ProbeBag(probe.bag)),
                                    probe.device_type, probe.media_type,
                                    get_formatted_timestamp(probe.timestamp)),
                   !.generated = TRUE]
    /\ UNCHANGED << listing, sources, outputs, dirs, db, args, today, entry, pc,
                    media_files, done, success_count, error_count, output_path,
                    exit_code, faults, run, trail, copies, earlier, store_failed, memo >>

\* a later run on the copy: _identify_device_type of the new filename, with the
\* metadata of the file
IdentifyAgain ==
    /\ pc = "probe"
    /\ probe.generated /\ ~probe.identified_again
    /\ probe' = [probe EXCEPT
                   !.device_type_again = _identify_device_type(
                                             probe.new_filename,
                                             extract_metadata(ProbeBag(probe.bag))),
                   !.identified_again = TRUE]
    /\ UNCHANGED << listing, sources, outputs, dirs, db, args, today, entry, pc,
                    media_files, done, success_count, error_count, output_path,
                    exit_code, faults, run, trail, copies, earlier, store_failed, memo >>

NamingNext ==
    \/ Identify
    \/ ExtractFromFilename
    \/ Resolve
    \/ Generate
    \/ IdentifyAgain

NamingSpec == NamingInit /\ [][NamingNext]_vars

(***************************************************************************)
(* The timestamp of one file whose metadata holds any choice of the Sony   *)
(* candidate fields, or entries that repeat a key, under either --timezone *)
(***************************************************************************)
TimestampNames ==
    { "DSC00124.ARW", "DJI_20230615143022_0007_D.arw", "C0001.MP4",
      "DJI_20230615143022_0007_D.jpg", "DJI_0042.jpg", "DJI_0042.MP4" }

TimestampInit ==
    /\ memo = [process |-> << >>, dry_run |-> << >>]
    /\ listing = << >>
    /\ sources = {}
    /\ outputs = {}
    /\ dirs = {}
    /\ db = EmptyDb
    /\ \E timezone \in {"local", "Asia/Tokyo"} :
          args = [dry_run |-> FALSE, remove_processed |-> FALSE, timezone |-> timezone]
    /\ today = 1
    /\ entry = "none"
    /\ pc = "probe"
    /\ media_files = << >>
    /\ done = 0
    /\ success_count = 0
    /\ error_count = 0
    /\ output_path = NoneS
    /\ exit_code = [t |-> "running"]
    /\ faults = 0
    /\ run = 1
    /\ trail = << >>
    /\ copies = [f \in Files |-> 0]
    /\ earlier = {}
    /\ store_failed = FALSE
    /\ \E name \in TimestampNames,
          bag \in (Len(ProbeBags) + 1)..(Len(ProbeBags) + 324 + 125) :
          probe = [NoProbe EXCEPT !.name = name, !.bag = bag]

TimestampSpec == TimestampInit /\ [][ProbeNext]_vars

(***************************************************************************)
(* Properties of the runs                                                  *)
(***************************************************************************)
Events == { trail[k] : k \in 1..Len(trail) }
RowsOf(f) == { r \in db.rows : r.source_path = SourcePath(f) }
Errors == Cardinality({ k \in 1..Len(trail) : trail[k].outcome = "error" })

\* C1: when process_files runs a second time, as a real run, over a source
\* file that an earlier run has copied, with the tracking store working in
\* both runs and the source still in place, the file has been copied exactly
\* once, the store holds exactly one row for its source path, and the second
\* run, unless exiftool or mkdir fails it before the check, ends the file as
\* already processed.
C1_SecondRunSkips ==
    (run = 2 /\ ~args.dry_run /\ ~store_failed) =>
        \A e \in Events :
            (e.file \in earlier /\ e.file \in sources) =>
                /\ copies[e.file] = 1
                /\ Cardinality(RowsOf(e.file)) = 1
                /\ e.stage \in {"already", "constructor", "mkdir_failed"}

\* a second run, on a later day, skips a file whose output path has moved with
\* the day, by the row of its source path
C1_Witness ==
    /\ run = 2 /\ ~args.dry_run /\ ~store_failed /\ today = 2
    /\ \E e \in Events :
          /\ e.file \in earlier /\ e.file \in sources
          /\ e.stage = "already"
          /\ ~\E o \in outputs : o.path = e.path

\* C2: a real run that ends a file as already processed (its output path
\* exists, or its source path has a row in the store) leaves error_count as
\* it was.
C2_AlreadyProcessedIsNoError ==
    [][(/\ Len(trail') = Len(trail) + 1
        /\ ~trail'[Len(trail')].dry
        /\ trail'[Len(trail')].stage = "already") => error_count' = error_count]_vars

\* C3: process_files takes up every file of its list exactly once, in list
\* order, whatever fails for a file; while files are left the loop can go on;
\* and when it returns, success_count + error_count is the length of the list.
C3_BatchNeverAborted ==
    /\ pc \in {"loop", "mark", "remove", "returned"} =>
          /\ Len(trail) <= Len(media_files)
          /\ \A k \in 1..Len(trail) : trail[k].file = media_files[k]
    /\ pc \in {"loop", "mark", "remove"} => ENABLED Next
    /\ pc = "returned" =>
          /\ Len(trail) = Len(media_files)
          /\ success_count + error_count = Len(media_files)

\* a real run has returned from a list of two files, the first of which
\* raised an exception
C3_Witness ==
    /\ pc = "returned" /\ ~args.dry_run
    /\ Len(media_files) = 2
    /\ trail[1].stage \in {"raise", "constructor", "mkdir_failed"}
    /\ success_count + error_count = 2

\* C4: the process exits with 0 or 1; with 0 exactly when no file of the run
\* was counted as an error, and with 0 when no media file was found.
C4_ExitCode ==
    pc = "exited" =>
        /\ exit_code \in {0, 1}
        /\ error_count = Errors
        /\ exit_code = 0 <=> error_count = 0
        /\ media_files = << >> => exit_code = 0

\* a run with one success and one error has exited with 1
C4_Witness ==
    /\ pc = "exited" /\ exit_code = 1
    /\ success_count = 1 /\ error_count = 1

\* C5: no step of a dry run changes the input directory, the output tree
\* (files and directories) or the tracking store, whatever the other flags.
C5_DryRunNoSideEffects ==
    [][args.dry_run => UNCHANGED << sources, outputs, dirs, db >>]_vars

\* a dry run with remove_processed set has returned after counting a file as
\* a success
C5_Witness ==
    /\ args.dry_run /\ args.remove_processed
    /\ pc = "returned" /\ success_count >= 1
    /\ outputs = {} /\ dirs = {} /\ db = EmptyDb /\ sources = { listing[k] : k \in 1..Len(listing) }

\* C6: for every file a dry run takes up, the dry-run branch derives the
\* device, the media kind, the timestamp and the output path that
\* FileProcessor.process derives for it, and counts it as a success exactly
\* when process would accept it.
C6_DryRunDecidesAsRealRun ==
    \A e \in Events :
        (e.dry /\ e.stage # "constructor" /\ e.file \in sources) =>
            LET real == memo.process[e.file][today]
            IN  /\ e.device_type = real.device_type
                /\ e.media_type = real.media_type
                /\ e.timestamp = real.timestamp
                /\ e.path = real.output_path
                /\ e.outcome = "success" <=> real.stage = "ready"

\* whether process() cannot go on with a catalog file on a day: its device or
\* its media kind is unknown, or no timestamp is resolved, or no filename is
\* synthesized
Unprocessable(f, d) ==
    LET filename == Catalog[f].name
        metadata == extract_metadata(Catalog[f].exif)
        device_type == _identify_device_type(filename, metadata)
        media_type == _identify_media_type(filename)
        timestamp == ResolveTimestamp(filename, metadata, "local", Days[d])
    IN  \/ device_type = NoneS
        \/ media_type = NoneS
        \/ /\ ~(is_sony_mp4(filename) /\ SonyMp4Raises(metadata, Days[d]))
           /\ \/ timestamp = None
              \/ GenerateFrom(filename, metadata, device_type, media_type,
                              get_formatted_timestamp(timestamp)) \in {"", NoneS}

SkipTable == Tabulate(LAMBDA f : Tabulate(LAMBDA d : Unprocessable(f, d), Len(Days)),
                      Len(Catalog))

\* C7: when a real run takes up a file whose device or media kind is unknown,
\* whose timestamp cannot be resolved or whose filename cannot be synthesized,
\* it makes no copy, writes no row, deletes no source, goes on to the next
\* file without marking or removing, and adds exactly one to error_count.
C7_UnprocessableIsSkipped ==
    [][(/\ pc = "loop" /\ ~args.dry_run
        /\ Len(trail') = Len(trail) + 1
        /\ SkipTable[CurrentFile][today]) =>
            /\ outputs' = outputs
            /\ copies' = copies
            /\ db.rows' = db.rows
            /\ sources' = sources
            /\ pc' = "loop" /\ done' = done + 1
            /\ success_count' = success_count
            /\ error_count' = error_count + 1]_vars

\* a real run has skipped a file of unknown device and a file without a
\* timestamp, and has counted two errors
C7_Witness ==
    /\ ~args.dry_run /\ pc = "returned" /\ faults = 0
    /\ \E e \in Events : e.stage = "unclassified" /\ e.device_type = NoneS
    /\ \E e \in Events : e.stage = "no_timestamp"
    /\ error_count = 2 /\ outputs = {} /\ db.rows = {}

\* C8: the path of every copy is the output root, then photos for an image
\* and videos for a video, then YYYY, YYYY-MM and YYYY-MM-DD of the file's
\* resolved timestamp, then the filename, whose first eight characters are
\* the same YYYYMMDD.
C8_OutputPathLayout ==
    pc = "mark" =>
        LET e == trail[Len(trail)]
            parts == Split(output_path, "/")
            kind == _identify_media_type(Catalog[e.file].name)
            YYYY == Pad(e.timestamp.y, 4)
            MM == Pad(e.timestamp.mo, 2)
            DD == Pad(e.timestamp.d, 2)
        IN  /\ [path |-> output_path, content |-> e.file] \in outputs
            /\ Len(parts) = 6
            /\ parts[1] = OutputDir
            /\ kind \in {"image", "video"}
            /\ parts[2] = (IF kind = "image" THEN "photos" ELSE "videos")
            /\ parts[3] = YYYY
            /\ parts[4] = YYYY \o "-" \o MM
            /\ parts[5] = YYYY \o "-" \o MM \o "-" \o DD
            /\ SubSeq(parts[6], 1, 8) = YYYY \o MM \o DD

\* a Sony raw image has just been copied below photos
C8_Witness ==
    /\ pc = "mark"
    /\ trail[Len(trail)].device_type = "sony_camera"
    /\ output_path = "out/photos/2023/2023-06/2023-06-16/20230616-090000-Sony-ILCE7M4.arw"

\* tzinfo is not None
IsAware(dt) == dt # None /\ dt.tz.kind # "naive"

\* C9: every timestamp that a real run resolves and formats for the output
\* path is timezone-aware.
C9_FormattedTimestampIsAware ==
    \A e \in Events :
        (~e.dry /\ e.stage \notin {"constructor", "missing"} /\ e.timestamp # None) =>
            IsAware(e.timestamp)

\* the date-time the six numbers of a probe name stand for is one of the
\* calendar (years 1901 to 2099) and of the clock
ProbeValid ==
    LET g == probe.literal
        last == IF g[2] = 2 THEN (IF g[1] % 4 = 0 THEN 29 ELSE 28)
                ELSE IF g[2] \in {4, 6, 9, 11} THEN 30 ELSE 31
    IN  /\ g[1] \in 1901..2099 /\ g[2] \in 1..12 /\ g[3] \in 1..last
        /\ g[4] \in 0..23 /\ g[5] \in 0..59 /\ g[6] \in 0..59

ProbeLiteral ==
    [y |-> probe.literal[1], mo |-> probe.literal[2], d |-> probe.literal[3],
     h |-> probe.literal[4], mi |-> probe.literal[5], s |-> probe.literal[6],
     tz |-> [kind |-> "local", off |-> 0]]

\* C10: for a filename that holds DJI_YYYYMMDDHHMMSS_ with a valid
\* date-time, extract_timestamp_from_filename returns exactly that year,
\* month, day, hour, minute and second in the local zone; and for every
\* metadata bag process() resolves the same instant, unless the name ends in
\* .arw, for which it asks the Sony fields first.
C10_DjiStampIsLiteralLocal ==
    /\ (probe.extracted /\ ProbeValid) => probe.filename_timestamp = ProbeLiteral
    /\ (probe.resolved /\ ProbeValid /\ ~is_sony_arw(probe.name)) =>
           probe.timestamp = ProbeLiteral

\* the stamp of a leap day, behind a prefix, resolved against a bag that
\* holds other dates
C10_Witness ==
    /\ probe.extracted /\ probe.resolved
    /\ probe.name = "vlog_DJI_20240229143022_0007.MP4"
    /\ probe.bag = 3
    /\ probe.filename_timestamp # None
    /\ probe.timestamp = probe.filename_timestamp

(***************************************************************************)
(* Properties of classification and filename synthesis                     *)
(***************************************************************************)
Devices == {"dji_drone", "sony_camera", "dji_rc_pro"}

\* C11: a file classified as one of the three devices and given the filename
\* _generate_new_filename produces is classified as the same device again
\* when _identify_device_type is applied to that filename with the same
\* metadata.
C11_ReclassificationIsStable ==
    (probe.identified_again /\ probe.device_type \in Devices)
        => probe.device_type_again = probe.device_type

\* the metadata FileProcessor holds for the file
ProbeMetadata == extract_metadata(ProbeBag(probe.bag))

\* the parts of the new filename between its dashes
Tokens == Split(probe.new_filename, "-")

\* the metadata gives the shutter count 42: under ShutterCount, or under
\* ShutterCount2 when ShutterCount is absent or no number
ShutterCountIs42 ==
    LET FortyTwo == { Num(42), Str("42"), Str(" 42") }
    IN  \/ Get(ProbeMetadata, "ShutterCount") \in FortyTwo
        \/ /\ Get(ProbeMetadata, "ShutterCount") \in { NoneV, Str("n/a") }
           /\ Get(ProbeMetadata, "ShutterCount2") \in FortyTwo

\* C12: the filename synthesized for a sony_camera image whose shutter count
\* is 42 has 000042, the count zero-padded to six digits, as one of its
\* dash-separated parts.
C12_ShutterCountIsPadded ==
    (/\ probe.generated
     /\ probe.device_type = "sony_camera" /\ probe.media_type = "image"
     /\ ShutterCountIs42)
        => \E k \in 1..Len(Tokens) : Tokens[k] = "000042"

C12_Witness ==
    /\ probe.generated
    /\ probe.name = "DSC00124.ARW"
    /\ probe.bag = 5
    /\ ShutterCountIs42
    /\ probe.new_filename = "20220304-050607-000042-Sony-ILCE7M4.arw"

\* the label the normalization gives a height
LabelOf(h) ==
    IF h = 2160 THEN "4K" ELSE IF h = 1080 THEN "FHD" ELSE IF h = 720 THEN "HD"
    ELSE ToStr(h) \o "p"

\* the integer a metadata value stands for, -1 when it stands for none: a
\* number, a text of digits, or the side of a 'WxH' text (1 the width, 2 the
\* height)
ReadInt(v, side) ==
    IF v.t = "int" THEN v.n
    ELSE IF v.t = "str"
    THEN LET parts == Split(v.s, "x")
             text == Strip(IF Len(parts) >= 2 THEN parts[side] ELSE v.s)
         IN  IF IsDigitStr(text) THEN ToInt(text) ELSE -1
    ELSE -1

\* both fields of the i-th pair of the ordered list hold a value
PairPresent(i) ==
    /\ Truthy(Get(ProbeMetadata, resolution_fields[i][1]))
    /\ Truthy(Get(ProbeMetadata, resolution_fields[i][2]))

PairReadable(i) ==
    /\ PairPresent(i)
    /\ ReadInt(Get(ProbeMetadata, resolution_fields[i][1]), 1) >= 0
    /\ ReadInt(Get(ProbeMetadata, resolution_fields[i][2]), 2) >= 0

\* the height of the first pair of the list for which P holds
FirstHeight(P(_)) ==
    LET i == CHOOSE k \in 1..Len(resolution_fields) : P(k) /\ \A j \in 1..(k - 1) : ~P(j)
    IN  ReadInt(Get(ProbeMetadata, resolution_fields[i][2]), 2)

ResolutionComponent ==
    IF Has(probe.components, "resolution") THEN probe.components.val["resolution"].s
    ELSE NoneS

\* C13 as claimed: the resolution label of a video is the label of the
\* height (2160 is 4K, 1080 is FHD, 720 is HD, any other h is <h>p), a
\* number or the H of a 'WxH' text, of the first pair of the ordered list
\* of width and height fields in which both values are present.
C13_ResolutionFromFirstPresentPair ==
    (/\ probe.generated /\ probe.media_type = "video"
     /\ \E i \in 1..Len(resolution_fields) : PairPresent(i))
        => ResolutionComponent = LabelOf(FirstHeight(PairPresent))

\* a sony_camera .mp4 whose two Sony layout fields are present and integers
SonyLayoutHeight ==
    LET width == Get(ProbeMetadata, "VideoFormatVideoLayoutPixel")
        height == Get(ProbeMetadata, "VideoFormatVideoLayoutNumOfVerticalLine")
        Plain(v) == IF v.t = "str" /\ Contains(v.s, "x") THEN -1 ELSE ReadInt(v, 1)
    IN  IF /\ probe.device_type = "sony_camera"
           /\ Lower(get_file_extension(probe.name)) = ".mp4"
           /\ Truthy(width) /\ Truthy(height)
           /\ Plain(width) >= 0 /\ Plain(height) >= 0
        THEN Plain(height)
        ELSE -1

\* C13 as amended: the label depends on the height only (2160 is 4K, 1080 is
\* FHD, 720 is HD, any other h is <h>p).  For a sony_camera .mp4 whose two
\* Sony layout fields are present and integers the height is that of the
\* Sony pair; otherwise it is the height, an integer or the H of a 'WxH'
\* text, of the first pair of the ordered list in which both values are
\* present and read as integers.
C13_ResolutionFromHeight ==
    (probe.generated /\ probe.media_type = "video")
        => IF SonyLayoutHeight >= 0
           THEN ResolutionComponent = LabelOf(SonyLayoutHeight)
           ELSE (\E i \in 1..Len(resolution_fields) : PairReadable(i))
                    => ResolutionComponent = LabelOf(FirstHeight(PairReadable))

C13_Witness ==
    /\ probe.generated
    /\ probe.name = "C0001.MP4"
    /\ probe.bag = 13
    /\ PairPresent(1)
    /\ SonyLayoutHeight = 2160
    /\ ResolutionComponent = "4K"

\* the whole seconds a Duration value stands for, -1 when it stands for none:
\* a number, a text of digits, or an H:MM:SS or MM:SS literal
SecondsOf(v) ==
    IF v.t = "int" THEN v.n
    ELSE IF v.t = "str"
    THEN LET parts == Split(v.s, ":")
         IN  IF \E k \in 1..Len(parts) : ~IsDigitStr(parts[k]) THEN -1
             ELSE IF Len(parts) = 1 THEN ToInt(parts[1])
             ELSE IF Len(parts) = 2 THEN ToInt(parts[1]) * 60 + ToInt(parts[2])
             ELSE IF Len(parts) = 3
             THEN ToInt(parts[1]) * 3600 + ToInt(parts[2]) * 60 + ToInt(parts[3])
             ELSE -1
    ELSE -1

\* MMmSSs from a minute on, SSs below
DurationLabel(t) ==
    IF t >= 60 THEN Pad(t \div 60, 2) \o "m" \o Pad(t % 60, 2) \o "s" ELSE Pad(t, 2) \o "s"

DurationValue == Get(ProbeMetadata, "Duration")

DurationComponent ==
    IF Has(probe.components, "duration") THEN probe.components.val["duration"].s
    ELSE NoneS

DroneStillScenario ==
    /\ probe.name = "DJI_20230615143022_0007_D.jpg"
    /\ ProbeMetadata.keys = <<"SourceFile">>

StartsWith(s, prefix) == SubSeq(s, 1, Len(prefix)) = prefix

EndsWith(s, suffix) ==
    Len(s) >= Len(suffix) /\ SubSeq(s, Len(s) - Len(suffix) + 1, Len(s)) = suffix

\* C15: DJI_20230615143022_0007_D.jpg with no usable metadata is a dji_drone
\* image with the timestamp 2023-06-15 14:30:22 local and the sequence 0007;
\* its output filename starts with 20230615-143022-0007-DJI-Mavic3Pro- and
\* ends with jpg, and has no focal length.
C15_DroneStillScenario ==
    (probe.generated /\ DroneStillScenario)
        => /\ probe.device_type = "dji_drone"
           /\ probe.media_type = "image"
           /\ probe.timestamp = [y |-> 2023, mo |-> 6, d |-> 15, h |-> 14, mi |-> 30,
                                 s |-> 22, tz |-> TzLocal]
           /\ Has(probe.components, "sequence")
           /\ probe.components.val["sequence"] = Str("0007")
           /\ ~Has(probe.components, "focal_length")
           /\ StartsWith(probe.new_filename, "20230615-143022-0007-DJI-Mavic3Pro-")
           /\ EndsWith(probe.new_filename, "jpg")

C15_Witness ==
    /\ probe.generated
    /\ DroneStillScenario
    /\ probe.new_filename = "20230615-143022-0007-DJI-Mavic3Pro-.jpg"

(***************************************************************************)
(* Properties of the batch under I/O failures                              *)
(***************************************************************************)
\* the step in which the row of a copied file is not written: sqlite fails,
\* or the store has no table
StoreWriteFails == pc = "mark" /\ (faults' = faults + 1 \/ ~db.table)

\* the step in which os.remove of a copied file fails
DeleteFails == pc = "remove" /\ faults' = faults + 1

\* the step in which the copy of a file fails
CopyFails ==
    /\ pc = "loop"
    /\ Len(trail') = Len(trail) + 1
    /\ trail'[Len(trail')].stage = "copy_failed"

\* C16: after a successful copy, a failure to write the tracking store or to
\* delete the source is not fatal: the file counts as one success, the
\* number of errors does not change and the batch goes on to the next file;
\* a failure of the copy itself counts as exactly one error.
C16_StoreAndDeleteFailuresAreNotErrors ==
    [][/\ StoreWriteFails
          => /\ success_count' = success_count + 1
             /\ error_count' = error_count
             /\ IF args.remove_processed THEN pc' = "remove" /\ done' = done
                ELSE pc' = "loop" /\ done' = done + 1
       /\ DeleteFails
          => /\ success_count' = success_count
             /\ error_count' = error_count
             /\ sources' = sources
             /\ pc' = "loop" /\ done' = done + 1
       /\ CopyFails
          => /\ error_count' = error_count + 1
             /\ success_count' = success_count
             /\ pc' = "loop" /\ done' = done + 1]_vars

\* the first of two files was copied, its row was not written although the
\* store has its table, and it is counted as a success
C16_Witness ==
    /\ ~args.dry_run
    /\ pc = "loop"
    /\ Len(media_files) = 2
    /\ done = 1
    /\ store_failed
    /\ db.table
    /\ db.rows = {}
    /\ outputs # {}
    /\ success_count = 1
    /\ error_count = 0

(***************************************************************************)
(* Properties of the device classification                                 *)
(***************************************************************************)
\* an .mp4 name, in any case of the extension, whose base name is one of the
\* given letters followed by one or more digits
IsClipName(name, letters) ==
    /\ Len(name) >= 6
    /\ Lower(SubSeq(name, Len(name) - 3, Len(name))) = ".mp4"
    /\ Char(name, 1) \in letters
    /\ IsDigitStr(SubSeq(name, 2, Len(name) - 4))

CapitalLetters == { Char("ABCDEFGHIJKLMNOPQRSTUVWXYZ", i) : i \in 1..26 }

\* C17 as claimed: every .mp4 whose base name is one capital letter, any of
\* A-Z, followed by only digits is a sony_camera, whatever the metadata.
C17_LetterAndDigitsIsSony ==
    (probe.identified /\ IsClipName(probe.name, CapitalLetters))
        => probe.device_type = "sony_camera"

\* C17 as amended: every .mp4 whose base name is the capital letter C
\* followed by only digits (one or more) is a sony_camera, whatever the
\* metadata.
C17_CAndDigitsIsSony ==
    (probe.identified /\ IsClipName(probe.name, {"C"}))
        => probe.device_type = "sony_camera"

\* a C clip whose metadata names DJI as the make
C17_Witness ==
    /\ probe.identified
    /\ IsClipName(probe.name, {"C"})
    /\ Get(ProbeMetadata, "make") = Str("DJI")
    /\ probe.device_type = "sony_camera"

\* the steps before the rule-table scan: the C clip shortcut and the markers
\* of names that were already given
BeforeTheScan(name) ==
    \/ /\ Lower(get_file_extension(name)) = ".mp4"
       /\ Char(name, 1) = "C"
       /\ IsDigitStr(Tail(Split(name, ".")[1]))
    \/ Contains(name, "DJI-Mavic3Pro")
    \/ Contains(name, "DJI-RCPro")
    \/ Contains(name, "Sony-ILCE")

\* a configured value of the rule is a case-insensitive substring of the text
\* stored under the rule's field name, however the field name is capitalized
RuleMatchesInAnyCase(metadata, rule) ==
    \E k \in 1..Len(metadata.keys), i \in 1..Len(rule[2]) :
        /\ Lower(metadata.keys[k]) = Lower(rule[1])
        /\ IsStr(metadata.val[metadata.keys[k]])
        /\ Contains(Lower(metadata.val[metadata.keys[k]].s), Lower(rule[2][i]))

RowMatchesInAnyCase(name, metadata, row) ==
    \/ \E i \in 1..Len(row.filename_patterns) : Contains(name, row.filename_patterns[i])
    \/ \E i \in 1..Len(row.metadata_patterns) :
          RuleMatchesInAnyCase(metadata, row.metadata_patterns[i])

\* C18: in the rule-table scan a metadata rule matches however the extractor
\* capitalizes the field name (Make or make): when no earlier step matched,
\* the file is classified as the first device of the table one of whose
\* filename patterns is in the name or one of whose configured values is a
\* case-insensitive substring of the text stored under the field name.
C18_FieldNameInAnyCase ==
    (probe.identified /\ ~BeforeTheScan(probe.name))
        => \A i \in 1..Len(DEVICE_PATTERNS) :
              (/\ RowMatchesInAnyCase(probe.name, ProbeMetadata, DEVICE_PATTERNS[i])
               /\ \A j \in 1..(i - 1) :
                     ~RowMatchesInAnyCase(probe.name, ProbeMetadata, DEVICE_PATTERNS[j]))
                  => probe.device_type = DEVICE_PATTERNS[i].device

\* the order of the devices in the rule table, as documented
TableOrder == <<"dji_drone", "sony_camera", "dji_rc_pro">>

\* the row the table holds for a device
RowOf(device) ==
    DEVICE_PATTERNS[CHOOSE i \in 1..Len(DEVICE_PATTERNS) : DEVICE_PATTERNS[i].device = device]

\* a filename pattern or a metadata rule of the device matches the file
DeviceMatches(device) == DeviceRowMatches(probe.name, ProbeMetadata, RowOf(device))

\* C19: the rule-table scan returns the first device, in the order dji_drone,
\* sony_camera, dji_rc_pro, for which a filename pattern or a metadata rule
\* matches; a match of a later device never overrides it.
C19_FirstMatchWins ==
    (probe.identified /\ ~BeforeTheScan(probe.name))
        => \A p \in 1..Len(TableOrder) :
              (DeviceMatches(TableOrder[p]) /\ \A q \in 1..(p - 1) : ~DeviceMatches(TableOrder[q]))
                  => probe.device_type = TableOrder[p]

\* a name with the camera's pattern DSC whose metadata gives the make DJI:
\* the drone's metadata rule comes first
C19_Witness ==
    /\ probe.identified
    /\ probe.name = "DSC00001.JPG"
    /\ DeviceMatches("dji_drone")
    /\ DeviceMatches("sony_camera")
    /\ DeviceMatches("dji_rc_pro")
    /\ probe.device_type = "dji_drone"

(***************************************************************************)
(* Properties of the timestamp strategy                                    *)
(***************************************************************************)
FilenameDerived == extract_timestamp_from_filename(probe.name)

MetadataDerived ==
    MetadataTimestamp(SonyTimestamp(probe.name, ProbeMetadata, Days[today]),
                      ProbeMetadata, args.timezone, Days[today])

\* C20: the timestamp strategy follows the device.  A file classified
\* sony_camera gets the timestamp of its metadata when the metadata has one;
\* a file classified dji_drone or dji_rc_pro whose name matches a timestamp
\* pattern gets the timestamp of its name.
C20_StrategyFollowsDevice ==
    (probe.identified /\ probe.resolved)
        => /\ (probe.device_type = "sony_camera" /\ MetadataDerived # None)
                 => probe.timestamp = MetadataDerived
           /\ (probe.device_type \in {"dji_drone", "dji_rc_pro"} /\ FilenameDerived # None)
                 => probe.timestamp = FilenameDerived

(***************************************************************************)
(* Properties of the Sony candidate fields                                 *)
(***************************************************************************)
Naive == [kind |-> "naive", off |-> 0]

\* the metadata is a bag of candidate fields
OfCandidates == probe.bag \in (Len(ProbeBags) + 1)..(Len(ProbeBags) + 324)

\* the text of a field of the file's metadata, "" when the field is absent
CandidateText(group, key) ==
    IF GroupHas(ProbeMetadata, group, key) /\ IsStr(GroupGet(ProbeMetadata, group, key))
    THEN GroupGet(ProbeMetadata, group, key).s
    ELSE ""

\* the candidates of a still image in the order of the list, each with the
\* date a bag of candidate fields prints for it and the instant of that date
ArwOrder ==
    << [group |-> "Composite", key |-> "SubSecDateTimeOriginal",
        date |-> "2023:06:11 10:00:00.500+05:00",
        instant |-> DateTime(2023, 6, 11, 10, 0, 0, TzFixed(300))],
       [group |-> "System", key |-> "FileModifyDate",
        date |-> "2023:06:12 10:00:00+05:00",
        instant |-> DateTime(2023, 6, 12, 10, 0, 0, TzFixed(300))],
       [group |-> "ExifIFD", key |-> "DateTimeOriginal",
        date |-> "2023:06:13 10:00:00",
        instant |-> DateTime(2023, 6, 13, 10, 0, 0,
                             IF CandidateText("ExifIFD", "OffsetTimeOriginal") = "+05:00"
                             THEN TzFixed(300) ELSE Naive)],
       [group |-> "IFD0", key |-> "ModifyDate",
        date |-> "2023:06:14 10:00:00",
        instant |-> DateTime(2023, 6, 14, 10, 0, 0, Naive)] >>

ArwThere(i) == GroupHas(ProbeMetadata, ArwOrder[i].group, ArwOrder[i].key)

ArwParses(i) == CandidateText(ArwOrder[i].group, ArwOrder[i].key) = ArwOrder[i].date

ArwCase == probe.resolved /\ is_sony_arw(probe.name) /\ OfCandidates

\* C21: for a .arw file the candidates are consulted in the order
\* Composite:SubSecDateTimeOriginal, System:FileModifyDate,
\* ExifIFD:DateTimeOriginal with ExifIFD:OffsetTimeOriginal, IFD0:ModifyDate,
\* and the timestamp is that of the first candidate that parses, whatever the
\* later candidates hold and whichever earlier candidates failed to parse.
C21_FirstParsingCandidate ==
    ArwCase => \A i \in 1..4 :
                   (ArwParses(i) /\ \A j \in 1..(i - 1) : ~ArwParses(j))
                       => probe.timestamp = ArwOrder[i].instant

\* the first two candidates are there and do not parse, the last two parse,
\* the third is the one used
C21_Witness ==
    /\ ArwCase
    /\ ArwThere(1) /\ ~ArwParses(1)
    /\ ArwThere(2) /\ ~ArwParses(2)
    /\ ArwParses(3) /\ ArwParses(4)
    /\ probe.timestamp = ArwOrder[3].instant

\* the file gets the metadata-preferred strategy and no Sony candidate parses
NoCandidateParses ==
    /\ is_sony_arw(probe.name) \/ is_sony_mp4(probe.name)
    /\ SonyTimestamp(probe.name, ProbeMetadata, Days[today]) = None

\* C22: in the metadata-preferred strategy, when no Sony candidate parses,
\* the timestamp is that of the filename when a filename pattern matches, and
\* that of the generic metadata fields only when none does.
C22_FilenameBeforeGenericFields ==
    (probe.resolved /\ NoCandidateParses)
        => probe.timestamp =
               (IF FilenameDerived # None THEN FilenameDerived
                ELSE extract_timestamp_from_metadata(ProbeMetadata, args.timezone,
                                                     Days[today]))

\* the candidates of a video in the order of the list (lines 182-276)
Mp4Order ==
    << [group |-> "XML", key |-> "CreationDateValue",
        date |-> "2023:06:15 10:00:00+05:00",
        instant |-> DateTime(2023, 6, 15, 10, 0, 0, TzFixed(300))],
       [group |-> "QuickTime", key |-> "CreateDate",
        date |-> "2023:06:16 10:00:00",
        instant |-> DateTime(2023, 6, 16, 10, 0, 0,
                             IF CandidateText("QuickTime", "TimeZone") = "+05:00"
                             THEN TzFixed(300) ELSE Naive)],
       [group |-> "System", key |-> "FileModifyDate",
        date |-> "2023:06:12 10:00:00+05:00",
        instant |-> DateTime(2023, 6, 12, 10, 0, 0, TzFixed(300))],
       [group |-> "XML", key |-> "LastUpdate",
        date |-> "2023:06:17 10:00:00+05:00",
        instant |-> DateTime(2023, 6, 17, 10, 0, 0, TzFixed(300))] >>

\* the list of the file: still image or video
SonyOrder == IF is_sony_arw(probe.name) THEN ArwOrder ELSE Mp4Order

SonyCase ==
    /\ probe.resolved
    /\ is_sony_arw(probe.name) \/ is_sony_mp4(probe.name)
    /\ OfCandidates

\* candidate i of the list holds its date, with the colon-separated date
\* portion, and no candidate before it does
FirstDated(i) ==
    /\ CandidateText(SonyOrder[i].group, SonyOrder[i].key) = SonyOrder[i].date
    /\ \A j \in 1..(i - 1) :
           CandidateText(SonyOrder[j].group, SonyOrder[j].key) # SonyOrder[j].date

\* the value split on the first space, ':' replaced by '-' in the date
\* segment, the rest as it stands
DateSegmentDashed(value) ==
    LET blanks == {i \in 1..Len(value) : Char(value, i) = " "}
        cut == IF blanks = {} THEN Len(value) + 1
               ELSE CHOOSE i \in blanks : \A j \in blanks : i <= j
    IN  ReplaceAll(SubSeq(value, 1, cut - 1), ":", "-") \o SubSeq(value, cut, Len(value))

\* the offset field that is appended to the candidate's text
OffsetOf(i) ==
    IF SonyOrder[i].key = "DateTimeOriginal" THEN CandidateText("ExifIFD", "OffsetTimeOriginal")
    ELSE IF SonyOrder[i].key = "CreateDate" THEN CandidateText("QuickTime", "TimeZone")
    ELSE ""

\* C23: for every Sony candidate, of the still-image list and of the video
\* list, whose value has a colon-separated date portion, the text handed to
\* the parser is the value with ':' replaced by '-' in the date segment only:
\* the timestamp of the first such candidate is the parse of that text, so it
\* has the date and the time the value prints.
C23_DateSegmentRewritten ==
    SonyCase => \A i \in 1..4 :
                    FirstDated(i)
                        => /\ probe.timestamp =
                                  Parsed(DateutilParse(
                                      DateSegmentDashed(SonyOrder[i].date) \o OffsetOf(i),
                                      Days[today]))
                           /\ probe.timestamp = SonyOrder[i].instant

(***************************************************************************)
(* Properties of the time zone of a timestamp                              *)
(***************************************************************************)
\* the zone --timezone asks for: the system's local zone, or the named one
ConfiguredZone ==
    IF args.timezone = "local" THEN TzLocal ELSE [kind |-> "zone", name |-> args.timezone]

\* the timestamp is the one of the filename
FromFilename ==
    /\ ~(is_sony_arw(probe.name) \/ is_sony_mp4(probe.name))
    /\ FilenameDerived # None

\* no field of the metadata prints an offset and no UTC-offset field is there
NoZoneInMetadata ==
    /\ OfCandidates
    /\ \A field \in { <<"Composite", "SubSecDateTimeOriginal">>,
                      <<"System", "FileModifyDate">>,
                      <<"XML", "CreationDateValue">>, <<"XML", "LastUpdate">>,
                      <<"ExifIFD", "OffsetTimeOriginal">>, <<"QuickTime", "TimeZone">> } :
           ~GroupHas(ProbeMetadata, field[1], field[2])

\* C24: a timestamp resolved without zone information carries the
\* configured zone, the one of --timezone when it is given and the local one
\* otherwise, both when it comes from a filename pattern and when it comes
\* from metadata in which no UTC-offset field is found.
C24_ConfiguredZone ==
    (probe.resolved /\ probe.timestamp # None /\ (FromFilename \/ NoZoneInMetadata))
        => probe.timestamp.tz = ConfiguredZone

\* the timestamp comes from the generic metadata fields: the file has neither
\* the metadata-preferred strategy nor a timestamp in its name
GenericCase ==
    /\ probe.resolved
    /\ OfCandidates
    /\ ~(is_sony_arw(probe.name) \/ is_sony_mp4(probe.name))
    /\ FilenameDerived = None

\* every date of the metadata prints an offset, the QuickTime one by the
\* TimeZone of its group
EveryDateCarriesAZone ==
    /\ ~GroupHas(ProbeMetadata, "IFD0", "ModifyDate")
    /\ ~GroupHas(ProbeMetadata, "ExifIFD", "DateTimeOriginal")
    /\ GroupHas(ProbeMetadata, "QuickTime", "CreateDate")
           => CandidateText("QuickTime", "TimeZone") = "+05:00"

\* C25: with the configured zone 'local', an instant that the generic
\* metadata-field resolution parses with a time zone is returned in the local
\* zone, for every metadata bag, those with QuickTime dates included.
C25_ConvertedToLocal ==
    (GenericCase /\ args.timezone = "local" /\ EveryDateCarriesAZone
       /\ probe.timestamp # None)
        => probe.timestamp.tz = TzLocal

(***************************************************************************)
(* Properties of the flattened metadata                                    *)
(***************************************************************************)
\* what exiftool printed for the file, and the two flattened views of it:
\* the one extract_metadata returns and the one the field list is tried on
ProbeExif == ProbeBag(probe.bag)

FlatView == _flatten_metadata(ProbeMetadata)

\* the places of the groups that hold key
Holders(key) ==
    {i \in 1..Len(ProbeExif.keys) :
         /\ IsDict(ProbeExif.val[ProbeExif.keys[i]])
         /\ Has(ProbeExif.val[ProbeExif.keys[i]], key)}

\* the value of the first writer of a bare key: the top-level entry when
\* there is one, the first group that holds the key otherwise
FirstWriter(key) ==
    IF Has(ProbeExif, key) THEN ProbeExif.val[key]
    ELSE LET first == CHOOSE i \in Holders(key) : \A j \in Holders(key) : i <= j
         IN  ProbeExif.val[ProbeExif.keys[first]].val[key]

NestedKeys == {"Make", "ModifyDate"}

\* C26: flattening is first-writer-wins.  For every scalar nested in a group
\* the flattened view holds a Group:Key entry with its value and a bare Key
\* entry, and the bare entry has the value of its first writer: a later or
\* deeper duplicate of a key does not replace an entry that is there.
C26_FirstWriterWins ==
    (probe.resolved /\ ~OfCandidates)
        => \A view \in {ProbeMetadata, FlatView}, key \in NestedKeys :
               /\ \A i \in Holders(key) :
                      /\ Has(view, ProbeExif.keys[i] \o ":" \o key)
                      /\ view.val[ProbeExif.keys[i] \o ":" \o key]
                             = ProbeExif.val[ProbeExif.keys[i]].val[key]
               /\ Holders(key) # {}
                      => Has(view, key) /\ view.val[key] = FirstWriter(key)

\* ModifyDate in a top-level entry and in two groups after it, Make in two
\* groups: the bare entries are those of the first writers
C26_Witness ==
    /\ probe.resolved /\ ~OfCandidates
    /\ Has(ProbeExif, "ModifyDate")
    /\ ProbeExif.keys = <<"SourceFile", "ModifyDate", "ExifIFD", "IFD0">>
    /\ FlatView.val["ModifyDate"] = Str("2023-03-03 03:00:00")
    /\ FlatView.val["Make"] = Str("DJI")
    /\ FlatView.val["IFD0:Make"] = Str("SONY")

(***************************************************************************)
(* Properties of the characters of a new filename                          *)
(***************************************************************************)
\* C27: whatever the device, the media kind and the components that are
\* there or missing, the filename _generate_new_filename returns holds no
\* placeholder left unfilled, no two dashes in a row and no space.
C27_NoPlaceholderDashRunOrSpace ==
    probe.generated
        => /\ ~Contains(probe.new_filename, "{") /\ ~Contains(probe.new_filename, "}")
           /\ ~Contains(probe.new_filename, "--")
           /\ ~Contains(probe.new_filename, " ")

(***************************************************************************)
(* Properties of the copies and of the order of the side effects           *)
(***************************************************************************)
\* C28: no output file is ever overwritten.  A step copies only to a path
\* at which no file is, a copy once made stays as it is, and a source is
\* deleted only after its own copy was made in the step before the record:
\* of two sources with the same output path the second is skipped and kept.
C28_NoOutputOverwritten ==
    [][/\ \A o \in outputs : o \in outputs'
       /\ \A o \in outputs' \ outputs : ~\E p \in outputs : p.path = o.path
       /\ \A f \in sources \ sources' :
              /\ trail[Len(trail)].file = f
              /\ trail[Len(trail)].stage = "copied"
              /\ [path |-> trail[Len(trail)].path, content |-> f] \in outputs]_vars

\* a run with --remove-processed over two sources with the same output path:
\* the first was copied and deleted, the second skipped and kept
C28_Witness ==
    /\ ~args.dry_run /\ args.remove_processed /\ pc = "returned"
    /\ Len(trail) = 2
    /\ trail[1].file # trail[2].file
    /\ trail[1].path = trail[2].path
    /\ trail[1].stage = "copied" /\ trail[2].stage = "already"
    /\ trail[1].file \notin sources /\ trail[2].file \in sources
    /\ outputs = { [path |-> trail[1].path, content |-> trail[1].file] }

\* the copy of file f is at path
CopyAt(f, path) == [path |-> path, content |-> f] \in outputs

\* the files of the list whose source has been deleted
Deleted == { listing[k] : k \in 1..Len(listing) } \ sources

\* C29: the side effects of a file of a real run come in the order copy,
\* record in the tracking store, deletion of the source.  The record and the
\* deletion are reached only with the copy at the output path, the deletion
\* only after the record was attempted, so no row and no deleted source is
\* ever without its copy.
C29_CopyThenRecordThenDelete ==
    /\ pc \in {"mark", "remove"} => CopyAt(CurrentFile, output_path)
    /\ pc = "remove"
          => /\ args.remove_processed
             /\ RowsOf(CurrentFile) # {} \/ store_failed
    /\ \A r \in db.rows :
           \E f \in Files : SourcePath(f) = r.source_path /\ CopyAt(f, r.output_path)
    /\ \A f \in Deleted :
           /\ \E o \in outputs : o.content = f
           /\ RowsOf(f) # {} \/ store_failed

\* a run with --remove-processed has returned: the source is deleted, its
\* row is in the store and its copy is at the path of the row
C29_Witness ==
    /\ pc = "returned" /\ ~args.dry_run /\ args.remove_processed
    /\ \E f \in Deleted :
           \E r \in RowsOf(f) : CopyAt(f, r.output_path)

(***************************************************************************)
(* Properties of a file without metadata                                   *)
(***************************************************************************)
\* the metadata extractor returns an empty mapping for the file
EmptyMetadata(f) == extract_metadata(Catalog[f].exif) = EmptyDict

\* the filename alone gives the device, the media kind and the timestamp
NameWouldDo(f) ==
    /\ _identify_device_type(Catalog[f].name, EmptyDict) # NoneS
    /\ _identify_media_type(Catalog[f].name) # NoneS
    /\ extract_timestamp_from_filename(Catalog[f].name) # None

\* C30: when a real run takes up a file for which the metadata extractor
\* returns an empty mapping, process() rejects it before it is classified,
\* also when the filename alone would give the device and the timestamp: the
\* file gets no device, no media kind and no timestamp, nothing is copied,
\* recorded or deleted, error_count grows by exactly one, and the loop goes
\* on to the next file.
C30_EmptyMetadataIsOneError ==
    [][(/\ pc = "loop" /\ ~args.dry_run
        /\ Len(trail') = Len(trail) + 1
        /\ EmptyMetadata(CurrentFile)) =>
            LET e == trail'[Len(trail')]
            IN  /\ e.file = CurrentFile
                /\ e.stage \in {"no_metadata", "constructor", "missing"}
                /\ e.device_type = NoneS /\ e.media_type = NoneS /\ e.timestamp = None
                /\ e.outcome = "error"
                /\ error_count' = error_count + 1
                /\ success_count' = success_count
                /\ outputs' = outputs /\ db.rows' = db.rows /\ sources' = sources
                /\ pc' = "loop" /\ done' = done + 1]_vars

\* a drone file with a timestamp in its name was rejected for its empty
\* metadata, and the file after it was copied
C30_Witness ==
    /\ ~args.dry_run /\ pc = "returned"
    /\ Len(trail) = 2
    /\ EmptyMetadata(trail[1].file) /\ NameWouldDo(trail[1].file)
    /\ trail[1].stage = "no_metadata" /\ trail[1].outcome = "error"
    /\ trail[2].stage = "copied"
    /\ error_count = 1 /\ success_count = 1

====
